---- MODULE Spec2Model ----
(***************************************************************************)
(* A model of the asynchronous DNS resolver of src/or/eventdns.c: the      *)
(* request table and its two queues, the nameserver registry, the          *)
(* retransmit / reissue engine, the search engine, clear-and-suspend,      *)
(* resume and shutdown.                                                    *)
(*                                                                         *)
(* Every C function is an operator from a machine state W (a record of the *)
(* program's globals, plus the handler's inputs) to the machine state      *)
(* after the call.  W.ret is the function's return value.  A handler's     *)
(* inputs (the values of the entropy source, the results of send(2), the   *)
(* outcome of a read of released memory) are read from W.tape in the order *)
(* in which the code asks for them.  One function calls another with       *)
(* Call(name, W, arguments); Bind(W, K) continues with K unless the        *)
(* process has stopped.                                                    *)
(***************************************************************************)
EXTENDS Integers, Sequences, FiniteSets, TLC

(***************************************************************************)
(* Bounds of the model.                                                    *)
(***************************************************************************)
\* number of struct request allocations that can be live at once (malloc
\* fails beyond)
MaxRequests == 3
\* number of struct nameserver allocations that can be live at once
MaxNameservers == 3
\* values the entropy source may repeat before transaction_id_pick accepts
MaxRejects == 1
\* inputs one handler may consume
MaxTape == 6
\* the server requests a run parses
MaxServerRequests == 3

(***************************************************************************)
(* Program constants.                                                      *)
(***************************************************************************)
global_max_reissues == 1
TRANS_ID_NONE == 65535
global_nameserver_timeouts_length == 5

NULL == 0

DNS_ERR_NONE == "NONE"
DNS_ERR_FORMAT == "FORMAT"
DNS_ERR_SERVERFAILED == "SERVERFAILED"
DNS_ERR_NOTEXIST == "NOTEXIST"
DNS_ERR_NOTIMPL == "NOTIMPL"
DNS_ERR_REFUSED == "REFUSED"
DNS_ERR_TRUNCATED == "TRUNCATED"
DNS_ERR_UNKNOWN == "UNKNOWN"
DNS_ERR_TIMEOUT == "TIMEOUT"
DNS_ERR_SHUTDOWN == "SHUTDOWN"

TYPE_A == "A"
TYPE_PTR == "PTR"
DNS_QUERY_NO_SEARCH == 1

\* the results of send(2) on a nameserver socket: all sent, EAGAIN (or a
\* short write), any other error
SendResults == {"ok", "eagain", "err"}
\* what the rest of a reply packet parses to: an answer of the request's
\* type, no such answer, or a parse error
ReplyBodies == {"answer", "empty", "malformed"}
\* what a read of released memory does: the old contents are still there, or
\* the process dies
UafResults == {"stale", "crash"}

\* history: no evdns_request_respond has run in this handler
NoRespond ==
    [req |-> 0, sent |-> "none", returned |-> FALSE, value |-> 0,
     refcnt |-> 0, pending |-> <<>>]

\* no server port is open: what port holds before evdns_add_server_port
NoPort ==
    [refcnt |-> 0, choaked |-> 0, pending_replies |-> 0, events |-> "none"]

VARIABLES
    req_head,                  \* the inflight list, from its head
    req_waiting_head,          \* the waiting list, from its head
    requests,                  \* the live struct request objects
    server_head,               \* the nameserver list, from its head
    nameservers,               \* the struct nameserver objects
    global_good_nameservers,
    global_requests_inflight,
    global_requests_waiting,
    global_search_state,       \* the search state new requests use, or NULL
    search_states,             \* the struct search_state objects
    global_max_requests_inflight,
    global_max_retransmits,
    global_max_nameserver_timeout,
    global_timeout,            \* global_timeout.tv_sec
    crashed,                   \* the process died (abort, segfault)
    env,                       \* what the environment of this run may do
    calls,                     \* per resolve call: the callbacks it got
    port,                      \* the struct evdns_server_port
    server_requests,           \* the struct server_request objects
    hist,                      \* history of the run, for the properties
    wire                       \* the last name read from or written to a packet

program == <<req_head, req_waiting_head, requests, server_head, nameservers,
          global_good_nameservers, global_requests_inflight,
          global_requests_waiting, global_search_state, search_states,
          global_max_requests_inflight, global_max_retransmits,
          global_max_nameserver_timeout, global_timeout, crashed, env, calls,
          port,
          server_requests, hist>>
vars == <<program, wire>>

\* a call of a function of eventdns.c (defined after the functions)
RECURSIVE Call(_, _, _)

(***************************************************************************)
(* The machine state of a handler.                                         *)
(***************************************************************************)
Cur ==
    [req_head |-> req_head, req_waiting_head |-> req_waiting_head,
     requests |-> requests, server_head |-> server_head,
     nameservers |-> nameservers,
     global_good_nameservers |-> global_good_nameservers,
     global_requests_inflight |-> global_requests_inflight,
     global_requests_waiting |-> global_requests_waiting,
     global_search_state |-> global_search_state,
     search_states |-> search_states,
     global_max_requests_inflight |-> global_max_requests_inflight,
     global_max_retransmits |-> global_max_retransmits,
     global_max_nameserver_timeout |-> global_max_nameserver_timeout,
     global_timeout |-> global_timeout,
     env |-> env, calls |-> calls,
     port |-> port, server_requests |-> server_requests,
     hist |-> [hist EXCEPT !.retired = 0, !.pumped = 0,
                           !.respond = NoRespond],
     halt |-> "run", tape |-> <<>>, need |-> {}, rejects |-> 0,
     uaf |-> FALSE, ret |-> 0]

Running(W) == W.halt = "run"
\* K on the state W, unless the process has stopped in W
Bind(W, K(_)) == IF W.halt = "run" THEN K(W) ELSE W
\* K on the value v
Let(v, K(_)) == K(v)
\* abort(), a failed assert, a NULL dereference
Crash(W) == [W EXCEPT !.halt = "crashed"]
Return(W, v) == [W EXCEPT !.ret = v]

\* the next input of the handler, one of dom, in W.ret
Draw(W, dom) ==
    IF W.tape = <<>> THEN [W EXCEPT !.halt = "starved", !.need = dom]
    ELSE [W EXCEPT !.ret = Head(W.tape), !.tape = Tail(W.tape)]

\* a read of released memory: once per handler, it crashes or goes on with
\* the old contents
use_after_free(W) ==
    IF W.uaf THEN W
    ELSE Bind(Draw(W, UafResults), LAMBDA d :
             IF d.ret = "crash" THEN Crash(d) ELSE [d EXCEPT !.uaf = TRUE])

\* a dereference of the nameserver pointer n
ns_deref(W, n) ==
    IF n = NULL THEN Crash(W)
    ELSE IF W.nameservers[n].freed THEN use_after_free(W)
    ELSE W

\* a dereference of the search state pointer state
ss_deref(W, state) ==
    IF W.search_states[state].freed THEN use_after_free(W) ELSE W

Rotate(s) == IF s = <<>> THEN s ELSE Tail(s) \o <<Head(s)>>
Remove(s, x) == SelectSeq(s, LAMBDA y : y # x)
Range(s) == {s[i] : i \in 1..Len(s)}
Min(a, b) == IF a < b THEN a ELSE b
Front(s) == SubSeq(s, 1, Len(s) - 1)

SetNs(W, n, f, v) == [W EXCEPT !.nameservers[n][f] = v]
SetReq(W, r, f, v) == [W EXCEPT !.requests[r][f] = v]

\* the index of the first request of list s whose trans_id is id, or 0
RECURSIVE FirstMatch(_, _, _, _)
FirstMatch(W, s, id, i) ==
    IF i > Len(s) THEN 0
    ELSE IF W.requests[s[i]].trans_id = id THEN i
    ELSE FirstMatch(W, s, id, i + 1)

request_find_from_trans_id(W, id) ==
    IF FirstMatch(W, W.req_head, id, 1) = 0 THEN NULL
    ELSE W.req_head[FirstMatch(W, W.req_head, id, 1)]

(***************************************************************************)
(* transaction_id_pick: a value of the entropy source that is not 0xffff   *)
(* and that the scan of the inflight list lets through.  The scan leaves   *)
(* its loop with req == started_at both when no request has the id and     *)
(* when the request at the head has it.                                    *)
(***************************************************************************)
\* the values of the 16-bit entropy source the model draws: 0xffff, the ids
\* of the inflight requests, and one id no inflight request has (all such
\* ids behave alike)
InflightIds(W) == {W.requests[W.req_head[i]].trans_id : i \in 1..Len(W.req_head)}
EntropyValues(W) ==
    {TRANS_ID_NONE} \cup InflightIds(W)
    \cup {CHOOSE v \in 0..Len(W.req_head) :
              /\ v \notin InflightIds(W)
              /\ \A u \in 0..(v - 1) : u \in InflightIds(W)}

\* the value is rejected: the loop draws again
transaction_id_again(W) ==
    IF W.rejects >= MaxRejects THEN [W EXCEPT !.halt = "stuck"]
    ELSE Call("transaction_id_pick", [W EXCEPT !.rejects = @ + 1], <<>>)

\* ret: the id
transaction_id_pick(W) ==
    Bind(Draw(W, EntropyValues(W)), LAMBDA d :
        IF d.ret = TRANS_ID_NONE THEN transaction_id_again(d)
        ELSE IF FirstMatch(d, d.req_head, d.ret, 1) \in {0, 1} THEN d
        ELSE transaction_id_again(d))

(***************************************************************************)
(* nameserver_pick                                                         *)
(***************************************************************************)
\* the for(;;) of nameserver_pick
RECURSIVE nameserver_pick_loop(_, _)
nameserver_pick_loop(W, started_at) ==
    IF W.nameservers[Head(W.server_head)].state = 1
    THEN [W EXCEPT !.ret = Head(W.server_head), !.server_head = Rotate(@)]
    ELSE IF Head(Rotate(W.server_head)) = started_at
    THEN \* assert(global_good_nameservers == 0)
         IF W.global_good_nameservers = 0
         THEN [W EXCEPT !.ret = started_at,
                        !.server_head = Rotate(Rotate(@))]
         ELSE Crash(W)
    ELSE nameserver_pick_loop([W EXCEPT !.server_head = Rotate(@)], started_at)

\* ret: the nameserver, or NULL
nameserver_pick(W) ==
    IF W.server_head = <<>> THEN Return(W, NULL)
    ELSE IF W.global_good_nameservers = 0
    THEN [W EXCEPT !.ret = Head(Rotate(W.server_head)),
                   !.server_head = Rotate(@)]
    ELSE nameserver_pick_loop(W, Head(W.server_head))

(***************************************************************************)
(* Nameserver health.                                                      *)
(***************************************************************************)
\* the delay of the probe timer, in seconds, by index
global_nameserver_timeouts == <<10, 60, 300, 900, 3600>>

\* the walk of nameserver_failed over the inflight list, from index i
RECURSIVE nameserver_failed_walk(_, _, _)
nameserver_failed_walk(W, n, i) ==
    IF i > Len(W.req_head) THEN W
    ELSE IF W.requests[W.req_head[i]].tx_count = 0
            /\ W.requests[W.req_head[i]].ns = n
    THEN \* still waiting to go out, can be moved to another server
         Bind(Call("nameserver_pick", W, <<>>), LAMBDA p :
             nameserver_failed_walk(SetReq(p, p.req_head[i], "ns", p.ret),
                                    n, i + 1))
    ELSE nameserver_failed_walk(W, n, i + 1)

\* nameserver_failed that walks the inflight list whatever is left up
nameserver_failed_walk_always(W, n) ==
    Bind(ns_deref(W, n), LAMBDA d :
        IF d.nameservers[n].state = 0 THEN d
        ELSE IF d.global_good_nameservers - 1 < 0
        THEN Crash([d EXCEPT !.global_good_nameservers = @ - 1])
        ELSE nameserver_failed_walk(
                 [d EXCEPT !.global_good_nameservers = @ - 1,
                           !.nameservers[n].state = 0,
                           !.nameservers[n].failed_times = 1,
                           !.nameservers[n].timeout_event = TRUE,
                           !.nameservers[n].timeout_tv =
                               global_nameserver_timeouts[1]],
                 n, 1))

nameserver_failed(W, n) ==
    Bind(ns_deref(W, n), LAMBDA d :
        IF d.nameservers[n].state = 0 THEN d
        \* assert(global_good_nameservers >= 0)
        ELSE IF d.global_good_nameservers - 1 < 0
        THEN Crash([d EXCEPT !.global_good_nameservers = @ - 1])
        ELSE Let([d EXCEPT !.global_good_nameservers = @ - 1,
                           !.nameservers[n].state = 0,
                           !.nameservers[n].failed_times = 1,
                           !.nameservers[n].timeout_event = TRUE,
                           !.nameservers[n].timeout_tv =
                               global_nameserver_timeouts[1]],
                 LAMBDA b :
                     IF b.global_good_nameservers = 0 THEN b
                     ELSE nameserver_failed_walk(b, n, 1)))

\* nameserver_up that leaves the probe timer alone
nameserver_up_keep_timer(W, n) ==
    Bind(ns_deref(W, n), LAMBDA d :
        IF d.nameservers[n].state # 0 THEN d
        ELSE [d EXCEPT !.nameservers[n].state = 1,
                       !.nameservers[n].failed_times = 0,
                       !.nameservers[n].timedout = 0,
                       !.global_good_nameservers = @ + 1])

nameserver_up(W, n) ==
    Bind(ns_deref(W, n), LAMBDA d :
        IF d.nameservers[n].state # 0 THEN d
        ELSE [d EXCEPT !.nameservers[n].timeout_event = FALSE,
                       !.nameservers[n].state = 1,
                       !.nameservers[n].failed_times = 0,
                       !.nameservers[n].timedout = 0,
                       !.global_good_nameservers = @ + 1])

\* nameserver_probe_failed that waits the first delay again
nameserver_probe_failed_flat(W, n) ==
    Bind(ns_deref(W, n), LAMBDA d :
        IF d.nameservers[n].state = 1
        THEN SetNs(d, n, "timeout_event", FALSE)
        ELSE [d EXCEPT !.nameservers[n].timeout_tv =
                           global_nameserver_timeouts[1],
                       !.nameservers[n].failed_times = @ + 1,
                       !.nameservers[n].timeout_event = TRUE])

nameserver_probe_failed(W, n) ==
    Bind(ns_deref(W, n), LAMBDA d :
        IF d.nameservers[n].state = 1
        THEN SetNs(d, n, "timeout_event", FALSE)
        ELSE [d EXCEPT !.nameservers[n].timeout_tv =
                           global_nameserver_timeouts[
                               Min(d.nameservers[n].failed_times,
                                   global_nameserver_timeouts_length - 1) + 1],
                       !.nameservers[n].failed_times = @ + 1,
                       !.nameservers[n].timeout_event = TRUE])

nameserver_probe_callback(W, result, n) ==
    IF result = DNS_ERR_NONE \/ result = DNS_ERR_NOTEXIST
    THEN nameserver_up(W, n)
    ELSE nameserver_probe_failed(W, n)

\* nameserver_write_waiting that never asks for EV_WRITE
nameserver_write_waiting_never(W, n, waiting) ==
    IF waiting = 1 THEN W ELSE SetNs(W, n, "write_waiting", 0)

nameserver_write_waiting(W, n, waiting) ==
    IF W.nameservers[n].write_waiting = waiting THEN W
    ELSE SetNs(W, n, "write_waiting", waiting)

(***************************************************************************)
(* Transmission.                                                           *)
(***************************************************************************)
\* history: the first datagram of request r is on the wire (tx_order), the
\* handler has retired so many inflight requests (retired) and promoted so
\* many waiting ones (pumped)
NoteSent(W, r) ==
    IF r \in Range(W.hist.tx_order) THEN W
    ELSE [W EXCEPT !.hist.tx_order = Append(@, r)]

\* history: the first datagram of request r has to wait for the socket
NoteBlocked(W, r) ==
    IF r \in Range(W.hist.tx_order) THEN W
    ELSE [W EXCEPT !.hist.blocked = @ \cup {r}]

\* history: a send of a datagram of request r has failed with an error
NoteErrored(W, r) == [W EXCEPT !.hist.errored = @ \cup {r}]

\* history: send() is called with a datagram of request r on the socket of
\* server, and does not block; sends counts the datagrams of r it has sent
NoteAttempt(W, r, server, res) ==
    [W EXCEPT !.hist.last_tx =
        [q \in DOMAIN @ \cup {r} |->
            IF q = r
            THEN [ns |-> server, id |-> W.requests[r].trans_id, res |-> res]
            ELSE @[q]],
              !.hist.sends =
        IF res # "ok" THEN @
        ELSE [q \in DOMAIN @ \cup {r} |->
                 IF q # r THEN @[q]
                 ELSE IF r \in DOMAIN @ THEN @[r] + 1 ELSE 1]]

\* history: request r is gone, or is back on the waiting list
Forget(h, r) ==
    [h EXCEPT !.tx_order = Remove(@, r),
              !.blocked = @ \ {r},
              !.errored = @ \ {r},
              !.last_tx = [q \in DOMAIN @ \ {r} |-> @[q]],
              !.sends = [q \in DOMAIN @ \ {r} |-> @[q]]]

\* ret: 0 ok, 1 temporary failure, 2 other failure
evdns_request_transmit_to(W, r, server) ==
    Bind(Draw(W, W.env.sends), LAMBDA d :
        IF d.ret = "err"
        THEN Bind(Call("nameserver_failed",
                       NoteErrored(NoteAttempt(d, r, server, "err"), r),
                       <<d.requests[r].ns>>),
                  LAMBDA e : Return(e, 2))
        ELSE IF d.ret = "eagain" THEN Return(d, 1)
        ELSE Return(NoteSent(NoteAttempt(d, r, server, "ok"), r), 0))

\* the switch of evdns_request_transmit on the result of the send
evdns_request_transmit_sent(W, r) ==
    IF W.ret = 1
    THEN Return(nameserver_write_waiting(
                    SetNs(NoteBlocked(W, r), W.requests[r].ns, "choaked", 1),
                    W.requests[r].ns, 1), 1)
    ELSE [W EXCEPT !.requests[r].timeout_event = TRUE,
                   !.requests[r].tx_count = @ + 1,
                   !.requests[r].transmit_me = 0,
                   !.ret = IF W.ret = 2 THEN 1 ELSE 0]

\* evdns_request_transmit without the test of the choaked flag
evdns_request_transmit_unchoked(W, r) ==
    IF W.requests[r].trans_id = TRANS_ID_NONE
    THEN Crash(SetReq(W, r, "transmit_me", 1))
    ELSE Bind(ns_deref(SetReq(W, r, "transmit_me", 1), W.requests[r].ns),
              LAMBDA b :
        Bind(Call("evdns_request_transmit_to", b, <<r, b.requests[r].ns>>),
             LAMBDA c : evdns_request_transmit_sent(c, r)))

\* ret: 0 ok, 1 failed
evdns_request_transmit(W, r) ==
    IF W.requests[r].trans_id = TRANS_ID_NONE
    THEN Crash(SetReq(W, r, "transmit_me", 1))
    ELSE Bind(ns_deref(SetReq(W, r, "transmit_me", 1), W.requests[r].ns),
              LAMBDA b :
        IF b.nameservers[b.requests[r].ns].choaked = 1
        THEN Return(NoteBlocked(b, r), 1)
        ELSE Bind(Call("evdns_request_transmit_to", b, <<r, b.requests[r].ns>>),
                  LAMBDA c : evdns_request_transmit_sent(c, r)))

\* the loop of evdns_transmit over the inflight list, from index i
RECURSIVE evdns_transmit_walk(_, _, _)
evdns_transmit_walk(W, i, did_try_to_transmit) ==
    IF i > Len(W.req_head) THEN Return(W, did_try_to_transmit)
    ELSE IF W.requests[W.req_head[i]].transmit_me = 1
    THEN Bind(Call("evdns_request_transmit", W, <<W.req_head[i]>>),
              LAMBDA a : evdns_transmit_walk(a, i + 1, 1))
    ELSE evdns_transmit_walk(W, i + 1, did_try_to_transmit)

\* evdns_transmit that leaves every request as it is
evdns_transmit_idle(W) ==
    Return(W, 0)

\* ret: 1 when it tried to transmit something
evdns_transmit(W) ==
    evdns_transmit_walk(W, 1, 0)

(***************************************************************************)
(* Requests and the two queues.                                            *)
(***************************************************************************)
\* a name is its sequence of labels; "www." has an empty last label
string_num_dots(name) == Len(name) - 1

\* history: a queue operation reads the two counters
ReadCounters(W) ==
    IF W.global_requests_inflight = Len(W.req_head)
       /\ W.global_requests_waiting = Len(W.req_waiting_head)
    THEN W
    ELSE [W EXCEPT !.hist.counts_ok = FALSE]

\* malloc(sizeof(struct request)): a free slot, or NULL
FreeRequests(W) == (1..MaxRequests) \ DOMAIN W.requests
malloc_request(W) ==
    IF FreeRequests(W) = {} THEN NULL
    ELSE CHOOSE r \in FreeRequests(W) : \A q \in FreeRequests(W) : r <= q

request_trans_id_set(W, r, trans_id) == SetReq(W, r, "trans_id", trans_id)

\* insert into the tail of the queue
evdns_request_insert(W, r, head) ==
    IF head = "inflight" THEN [W EXCEPT !.req_head = Append(@, r)]
    ELSE [W EXCEPT !.req_waiting_head = Append(@, r)]

\* the struct request that request_new fills in
NewRequest(trans_id, ns, type, name, callback, user_ptr) ==
    [trans_id |-> trans_id, ns |-> ns, tx_count |-> 0, reissue_count |-> 0,
     transmit_me |-> 0, timeout_event |-> FALSE, request_type |-> type,
     user_callback |-> callback, user_pointer |-> user_ptr, name |-> name,
     search_index |-> 0, search_state |-> NULL, search_origname |-> <<>>,
     search_flags |-> 0]

\* history: one more request is made for the resolve call user_ptr
NoteMade(W, callback, user_ptr, name) ==
    IF callback = "user"
    THEN [W.calls EXCEPT ![user_ptr].made = @ + 1,
                         ![user_ptr].asked = Append(@, name)]
    ELSE W.calls

\* request_new after the transaction id is chosen (in W.ret)
request_new_alloc(W, issuing_now, type, name, callback, user_ptr) ==
    IF malloc_request(W) = NULL THEN Return(W, NULL)
    ELSE Let(W.ret, LAMBDA trans_id :
         Bind(IF issuing_now THEN Call("nameserver_pick", W, <<>>)
              ELSE Return(W, NULL),
              LAMBDA c :
                  [c EXCEPT !.requests =
                        [q \in DOMAIN c.requests \cup {malloc_request(c)} |->
                            IF q \in DOMAIN c.requests THEN c.requests[q]
                            ELSE NewRequest(trans_id, c.ret, type, name,
                                            callback, user_ptr)],
                            !.calls = NoteMade(c, callback, user_ptr, name),
                            !.ret = malloc_request(c)]))

\* request_new that issues every request at once, whatever the cap
request_new_uncapped(W, type, name, flags, callback, user_ptr) ==
    Bind(Call("transaction_id_pick", ReadCounters(W), <<>>),
         LAMBDA b : request_new_alloc(b, TRUE, type, name, callback, user_ptr))

\* ret: the new request, or NULL
request_new(W, type, name, flags, callback, user_ptr) ==
    Let(ReadCounters(W), LAMBDA a :
    Let(a.global_requests_inflight < a.global_max_requests_inflight,
        LAMBDA issuing_now :
    Bind(IF issuing_now THEN Call("transaction_id_pick", a, <<>>)
         ELSE Return(a, TRANS_ID_NONE),
         LAMBDA b :
             request_new_alloc(b, issuing_now, type, name, callback, user_ptr))))

request_submit(W, r) ==
    IF W.requests[r].ns # NULL
    THEN Call("evdns_request_transmit",
              [evdns_request_insert(W, r, "inflight")
                  EXCEPT !.global_requests_inflight = @ + 1], <<r>>)
    ELSE [evdns_request_insert(W, r, "waiting")
             EXCEPT !.global_requests_waiting = @ + 1]

\* one turn of the loop of evdns_requests_pump_waiting_queue: the head of
\* the waiting list moves to the inflight list
pump_promote(W, req) ==
    Bind(Call("nameserver_pick",
              [W EXCEPT !.req_waiting_head = Tail(@),
                        !.global_requests_waiting = @ - 1,
                        !.global_requests_inflight = @ + 1,
                        !.hist.pumped = @ + 1], <<>>),
         LAMBDA c :
    Bind(Call("transaction_id_pick", SetReq(c, req, "ns", c.ret), <<>>),
         LAMBDA e :
    Bind(Call("evdns_request_transmit",
              evdns_request_insert(request_trans_id_set(e, req, e.ret),
                                   req, "inflight"), <<req>>),
         LAMBDA f :
    Bind(Call("evdns_transmit", f, <<>>),
         LAMBDA g : Call("evdns_requests_pump_waiting_queue", g, <<>>)))))

evdns_requests_pump_waiting_queue(W) ==
    Let(ReadCounters(W), LAMBDA a :
        IF ~(a.global_requests_inflight < a.global_max_requests_inflight
             /\ a.global_requests_waiting # 0)
        THEN a
        \* assert(req_waiting_head)
        ELSE IF a.req_waiting_head = <<>> THEN Crash(a)
        ELSE pump_promote(a, Head(a.req_waiting_head)))

(***************************************************************************)
(* Search state.                                                           *)
(***************************************************************************)
search_state_decref(W, state) ==
    IF state = NULL THEN W
    ELSE Bind(ss_deref(W, state), LAMBDA d :
             IF d.search_states[state].refcount - 1 = 0
             THEN [d EXCEPT !.search_states =
                       [x \in DOMAIN d.search_states \ {state} |->
                           d.search_states[x]]]
             ELSE [d EXCEPT !.search_states[state].refcount = @ - 1])

search_request_finished(W, r) ==
    Bind(Call("search_state_decref", W, <<W.requests[r].search_state>>),
         LAMBDA d : [d EXCEPT !.requests[r].search_state = NULL,
                              !.requests[r].search_origname = <<>>])

\* request_finished without the pump of the waiting queue
request_finished_unpumped(W, r, head) ==
    Bind(Call("search_request_finished",
              IF head = "inflight"
              THEN [W EXCEPT !.req_head = Remove(@, r),
                             !.hist.retired = @ + 1]
              ELSE IF head = "waiting"
              THEN [W EXCEPT !.req_waiting_head = Remove(@, r)]
              ELSE W,
              <<r>>),
         LAMBDA b :
             [b EXCEPT !.global_requests_inflight = @ - 1,
                       !.requests = [q \in DOMAIN b.requests \ {r} |->
                                        b.requests[q]],
                       !.hist = Forget(@, r)])

\* Called to remove a request from a list and dealloc it.  head names the
\* list it is removed from, or is "none".
request_finished(W, r, head) ==
    Bind(Call("search_request_finished",
              IF head = "inflight"
              THEN [W EXCEPT !.req_head = Remove(@, r),
                             !.hist.retired = @ + 1]
              ELSE IF head = "waiting"
              THEN [W EXCEPT !.req_waiting_head = Remove(@, r)]
              ELSE W,
              <<r>>),
         LAMBDA b :
             Call("evdns_requests_pump_waiting_queue",
                  [b EXCEPT !.global_requests_inflight = @ - 1,
                            !.requests = [q \in DOMAIN b.requests \ {r} |->
                                             b.requests[q]],
                            !.hist = Forget(@, r)],
                  <<>>))

\* request_reissue that gives the request a new transaction id
request_reissue_new_id(W, r) ==
    Bind(Call("nameserver_pick", W, <<>>), LAMBDA a :
        IF a.ret = W.requests[r].ns THEN Return(SetReq(a, r, "ns", a.ret), 1)
        ELSE Bind(Call("transaction_id_pick",
                       [a EXCEPT !.requests[r].ns = a.ret,
                                 !.requests[r].reissue_count = @ + 1,
                                 !.requests[r].tx_count = 0,
                                 !.requests[r].transmit_me = 1], <<>>),
                  LAMBDA t : Return(request_trans_id_set(t, r, t.ret), 0)))

\* request_reissue that goes on with the nameserver it had
request_reissue_same(W, r) ==
    Bind(Call("nameserver_pick", W, <<>>), LAMBDA a :
        [a EXCEPT !.requests[r].ns = a.ret,
                  !.requests[r].reissue_count = @ + 1,
                  !.requests[r].tx_count = 0,
                  !.requests[r].transmit_me = 1,
                  !.ret = 0])

\* ret: 0 ok, 1 failed/reissue is pointless
request_reissue(W, r) ==
    Bind(Call("nameserver_pick", W, <<>>), LAMBDA a :
        IF a.ret = W.requests[r].ns THEN Return(SetReq(a, r, "ns", a.ret), 1)
        ELSE [a EXCEPT !.requests[r].ns = a.ret,
                       !.requests[r].reissue_count = @ + 1,
                       !.requests[r].tx_count = 0,
                       !.requests[r].transmit_me = 1,
                       !.ret = 0])

(***************************************************************************)
(* Search.                                                                 *)
(***************************************************************************)
\* the n-th postfix (from 0, from the head of the list) appended to
\* base_name; ret: the new name
search_make_new(W, state, n, base_name) ==
    \* abort(): ran off the end of the list
    IF n + 1 > Len(W.search_states[state].head) THEN Crash(W)
    ELSE Return(W, (IF base_name[Len(base_name)] = "" THEN Front(base_name)
                    ELSE base_name)
                   \o W.search_states[state].head[n + 1])

\* the search fields of the new request r, and one more reference to state
SetSearch(W, r, origname, state, flags, index) ==
    [W EXCEPT !.requests[r].search_origname = origname,
              !.requests[r].search_state = state,
              !.requests[r].search_flags = flags,
              !.requests[r].search_index = index,
              !.search_states[state].refcount = @ + 1]

\* the first request of a search: name is the candidate, index its place
search_request_first(W, type, name, origname, flags, user_callback, user_arg, index) ==
    Bind(Call("request_new", W, <<type, name, flags, user_callback, user_arg>>),
         LAMBDA a :
             IF a.ret = NULL THEN Return(a, 1)
             ELSE Return(Call("request_submit",
                              SetSearch(a, a.ret, origname,
                                        a.global_search_state, flags, index),
                              <<a.ret>>), 0))

\* ret: 0 ok, 1 no request was made
search_request_new(W, type, name, flags, user_callback, user_arg) ==
    IF (flags % 2) = 0 /\ W.global_search_state # NULL
       /\ W.search_states[W.global_search_state].num_domains # 0
    THEN IF string_num_dots(name) >= W.search_states[W.global_search_state].ndots
         THEN search_request_first(W, type, name, name, flags,
                                   user_callback, user_arg, -1)
         ELSE Bind(search_make_new(W, W.global_search_state, 0, name),
                   LAMBDA n :
                       search_request_first(n, type, n.ret, name, flags,
                                            user_callback, user_arg, 0))
    ELSE Bind(Call("request_new", W, <<type, name, flags, user_callback, user_arg>>),
              LAMBDA a :
                  IF a.ret = NULL THEN Return(a, 1)
                  ELSE Return(Call("request_submit", a, <<a.ret>>), 0))

\* search_try_raw that tries the name raw however many dots it has
search_try_raw_always(W, r) ==
    Bind(Call("request_new", W,
              <<W.requests[r].request_type, W.requests[r].search_origname,
                W.requests[r].search_flags, W.requests[r].user_callback,
                W.requests[r].user_pointer>>),
         LAMBDA b :
             IF b.ret # NULL
             THEN Return(Call("request_submit", b, <<b.ret>>), 0)
             ELSE Return(b, 1))

\* search_try_next once the list of domains is used up
search_try_raw(W, r) ==
    IF string_num_dots(W.requests[r].search_origname)
           < W.search_states[W.requests[r].search_state].ndots
    THEN Bind(Call("request_new", W,
                   <<W.requests[r].request_type, W.requests[r].search_origname,
                     W.requests[r].search_flags, W.requests[r].user_callback,
                     W.requests[r].user_pointer>>),
              LAMBDA b :
                  IF b.ret # NULL
                  THEN Return(Call("request_submit", b, <<b.ret>>), 0)
                  ELSE Return(b, 1))
    ELSE Return(W, 1)

\* search_try_next with the next domain of the list
search_try_domain(W, r) ==
    Bind(search_make_new(W, W.requests[r].search_state,
                         W.requests[r].search_index,
                         W.requests[r].search_origname),
         LAMBDA n :
    Bind(Call("request_new", n,
              <<n.requests[r].request_type, n.ret, n.requests[r].search_flags,
                n.requests[r].user_callback, n.requests[r].user_pointer>>),
         LAMBDA b :
             IF b.ret = NULL THEN Return(b, 1)
             ELSE Return(Call("request_submit",
                              SetSearch(SetReq(b, r, "search_origname", <<>>),
                                        b.ret, b.requests[r].search_origname,
                                        b.requests[r].search_state,
                                        b.requests[r].search_flags,
                                        b.requests[r].search_index),
                              <<b.ret>>), 0)))

\* ret: 0 another request has been submitted, 1 no more requests needed
search_try_next(W, r) ==
    IF W.requests[r].search_state = NULL THEN Return(W, 1)
    ELSE Bind(ss_deref([W EXCEPT !.requests[r].search_index = @ + 1],
                       W.requests[r].search_state),
              LAMBDA a :
                  IF a.requests[r].search_index
                         >= a.search_states[a.requests[r].search_state].num_domains
                  THEN search_try_raw(a, r)
                  ELSE search_try_domain(a, r))

(***************************************************************************)
(* Replies and timeouts.                                                   *)
(***************************************************************************)
\* the user callback of request r is made with result err
reply_callback(W, r, err) ==
    IF W.requests[r].user_callback = "probe"
    THEN Call("nameserver_probe_callback", W, <<err, W.requests[r].user_pointer>>)
    ELSE [W EXCEPT !.calls[W.requests[r].user_pointer] =
              [@ EXCEPT !.count = @ + 1, !.result = err]]

error_codes == <<DNS_ERR_FORMAT, DNS_ERR_SERVERFAILED, DNS_ERR_NOTEXIST,
                 DNS_ERR_NOTIMPL, DNS_ERR_REFUSED>>

\* flags & 0x0200, flags & 0x000f, flags & 0x8000
FlagTC(flags) == (flags \div 512) % 2
FlagRcode(flags) == flags % 16
FlagQR(flags) == (flags \div 32768) % 2

\* the error reply_handle reads from the flags
reply_error(flags) ==
    IF FlagTC(flags) = 1 THEN DNS_ERR_TRUNCATED
    ELSE IF (FlagRcode(flags) - 1) % 65536 > 4 THEN DNS_ERR_UNKNOWN
    ELSE error_codes[((FlagRcode(flags) - 1) % 65536) + 1]

\* the tail of reply_handle's error branch when the failure is passed up
\* even though the search goes on
reply_handle_fail_eager(W, r, error) ==
    Bind(IF W.requests[r].search_state # NULL
            /\ W.requests[r].request_type # TYPE_PTR
         THEN Call("search_try_next", W, <<r>>)
         ELSE Return(W, 1),
         LAMBDA s :
             Bind(Call("reply_callback", s, <<r, error>>), LAMBDA c :
                 Call("request_finished", c, <<r, "inflight">>)))

\* the tail of reply_handle's error branch: the next search candidate, or the
\* failure passed up
reply_handle_fail(W, r, error) ==
    Bind(IF W.requests[r].search_state # NULL
            /\ W.requests[r].request_type # TYPE_PTR
         THEN Call("search_try_next", W, <<r>>)
         ELSE Return(W, 1),
         LAMBDA s :
             IF s.ret = 0 THEN Call("request_finished", s, <<r, "inflight">>)
             ELSE Bind(Call("reply_callback", s, <<r, error>>), LAMBDA c :
                      Call("request_finished", c, <<r, "inflight">>)))

\* the switch of reply_handle on the error
reply_handle_error(W, r, error) ==
    IF error \in {DNS_ERR_SERVERFAILED, DNS_ERR_NOTIMPL, DNS_ERR_REFUSED}
    THEN IF W.requests[r].reissue_count < global_max_reissues
         THEN Bind(Call("nameserver_failed", W, <<W.requests[r].ns>>), LAMBDA f :
              Bind(Call("request_reissue", f, <<r>>), LAMBDA a :
                  IF a.ret = 0 THEN a
                  ELSE Call("reply_handle_fail", a, <<r, error>>)))
         ELSE Call("reply_handle_fail", W, <<r, error>>)
    ELSE Bind(nameserver_up(W, W.requests[r].ns), LAMBDA u :
             Call("reply_handle_fail", u, <<r, error>>))

\* reply is "none" (NULL), "empty" (no answer) or "answer"
reply_handle(W, r, flags, reply) ==
    IF FlagTC(flags) = 1 \/ FlagRcode(flags) # 0 \/ reply # "answer"
    THEN reply_handle_error(W, r, reply_error(flags))
    ELSE Bind(Call("reply_callback", W, <<r, DNS_ERR_NONE>>), LAMBDA c :
         Bind(nameserver_up(c, c.requests[r].ns), LAMBDA u :
             Call("request_finished", u, <<r, "inflight">>)))

\* body is how the rest of the packet parses: "answer" (an answer of the
\* request's type), "empty" (no such answer), "malformed"
reply_parse(W, trans_id, flags, body) ==
    IF request_find_from_trans_id(W, trans_id) = NULL THEN W
    ELSE IF FlagQR(flags) = 0 THEN W
    ELSE IF FlagTC(flags) = 1 \/ FlagRcode(flags) # 0
    THEN Call("reply_handle", W,
              <<request_find_from_trans_id(W, trans_id), flags, "none">>)
    ELSE IF body = "malformed" THEN W
    ELSE Call("reply_handle", W,
              <<request_find_from_trans_id(W, trans_id), flags, body>>)

\* one datagram read from the socket of nameserver n; recv is "err" when
\* recv(2) fails with an error other than EAGAIN
nameserver_read(W, n, recv, trans_id, flags, body) ==
    IF recv = "err" THEN Call("nameserver_failed", W, <<n>>)
    ELSE Call("reply_parse", SetNs(W, n, "timedout", 0),
              <<trans_id, flags, body>>)

\* the rest of evdns_request_timeout_callback when it picks a nameserver
\* anew for the retransmission
request_timeout_finish_repick(W, r) ==
    IF W.requests[r].tx_count >= W.global_max_retransmits
    THEN Bind(Call("reply_callback", W, <<r, DNS_ERR_TIMEOUT>>), LAMBDA c :
             Call("request_finished", c, <<r, "inflight">>))
    ELSE Bind(Call("nameserver_pick", W, <<>>), LAMBDA p :
             Call("evdns_request_transmit", SetReq(p, r, "ns", p.ret), <<r>>))

\* the rest of evdns_request_timeout_callback when it gives up one timeout
\* too late
request_timeout_finish_late(W, r) ==
    IF W.requests[r].tx_count > W.global_max_retransmits
    THEN Bind(Call("reply_callback", W, <<r, DNS_ERR_TIMEOUT>>), LAMBDA c :
             Call("request_finished", c, <<r, "inflight">>))
    ELSE Call("evdns_request_transmit", W, <<r>>)

\* request_timeout_finish that hands the timeout to the search
request_timeout_finish_search(W, r) ==
    IF W.requests[r].tx_count >= W.global_max_retransmits
    THEN Call("reply_handle_fail", W, <<r, DNS_ERR_TIMEOUT>>)
    ELSE Call("evdns_request_transmit", W, <<r>>)

\* the rest of evdns_request_timeout_callback, once the nameserver's
\* timeouts are counted
request_timeout_finish(W, r) ==
    IF W.requests[r].tx_count >= W.global_max_retransmits
    THEN Bind(Call("reply_callback", W, <<r, DNS_ERR_TIMEOUT>>), LAMBDA c :
             Call("request_finished", c, <<r, "inflight">>))
    ELSE Call("evdns_request_transmit", W, <<r>>)

\* evdns_request_timeout_callback that fails the nameserver one timeout
\* early
evdns_request_timeout_callback_early(W, r) ==
    Bind(ns_deref(SetReq(W, r, "timeout_event", FALSE), W.requests[r].ns),
         LAMBDA d :
    Let(d.requests[r].ns, LAMBDA ns :
        IF d.nameservers[ns].timedout + 1 >= d.global_max_nameserver_timeout
        THEN Bind(Call("nameserver_failed", SetNs(d, ns, "timedout", 0), <<ns>>),
                  LAMBDA b : request_timeout_finish(b, r))
        ELSE request_timeout_finish(
                 SetNs(d, ns, "timedout", d.nameservers[ns].timedout + 1), r)))

evdns_request_timeout_callback(W, r) ==
    Bind(ns_deref(SetReq(W, r, "timeout_event", FALSE), W.requests[r].ns),
         LAMBDA d :
    Let(d.requests[r].ns, LAMBDA ns :
        IF d.nameservers[ns].timedout + 1 > d.global_max_nameserver_timeout
        THEN Bind(Call("nameserver_failed", SetNs(d, ns, "timedout", 0), <<ns>>),
                  LAMBDA b : request_timeout_finish(b, r))
        ELSE request_timeout_finish(
                 SetNs(d, ns, "timedout", d.nameservers[ns].timedout + 1), r)))

(***************************************************************************)
(* Probes.                                                                 *)
(***************************************************************************)
ProbeName == <<"www", "google", "com">>

nameserver_send_probe(W, n) ==
    Bind(ns_deref(W, n), LAMBDA d :
    Bind(Call("request_new", d,
              <<TYPE_A, ProbeName, DNS_QUERY_NO_SEARCH, "probe", n>>),
         LAMBDA a :
             IF a.ret = NULL THEN a
             ELSE Let(a.ret, LAMBDA req :
                  \* we force this into the inflight queue no matter what
                  Bind(Call("transaction_id_pick", a, <<>>), LAMBDA b :
                      Call("request_submit",
                           SetReq(request_trans_id_set(b, req, b.ret),
                                  req, "ns", n),
                           <<req>>)))))

\* the probe timer of nameserver n fires
nameserver_prod_callback(W, n) ==
    Call("nameserver_send_probe", SetNs(W, n, "timeout_event", FALSE), <<n>>)

\* EV_WRITE on the socket of nameserver n
nameserver_ready_callback_write(W, n) ==
    Bind(Call("evdns_transmit", SetNs(W, n, "choaked", 0), <<>>), LAMBDA a :
        IF a.ret = 0 THEN nameserver_write_waiting(a, n, 0) ELSE a)

(***************************************************************************)
(* The exported functions.                                                 *)
(***************************************************************************)
\* ret: 0, or 1 when no request could be made
evdns_resolve_ipv4(W, name, flags, ptr) ==
    IF (flags % 2) = 1
    THEN Bind(Call("request_new", W, <<TYPE_A, name, flags, "user", ptr>>),
              LAMBDA a :
                  IF a.ret = NULL THEN Return(a, 1)
                  ELSE Return(Call("request_submit", a, <<a.ret>>), 0))
    ELSE Call("search_request_new", W, <<TYPE_A, name, flags, "user", ptr>>)

\* the name d.c.b.a.in-addr.arpa of an address
ReverseName(in) == <<in, "in-addr", "arpa">>

evdns_resolve_reverse(W, in, flags, ptr) ==
    Bind(Call("request_new", W, <<TYPE_PTR, ReverseName(in), flags, "user", ptr>>),
         LAMBDA a :
             IF a.ret = NULL THEN Return(a, 1)
             ELSE Return(Call("request_submit", a, <<a.ret>>), 0))

evdns_count_nameservers(W) == Len(W.server_head)

\* malloc(sizeof(struct nameserver)): a new object, or NULL when
\* MaxNameservers are live
LiveNameservers(W) == {n \in DOMAIN W.nameservers : ~W.nameservers[n].freed}
malloc_nameserver(W) ==
    IF Cardinality(LiveNameservers(W)) >= MaxNameservers THEN NULL
    ELSE CHOOSE n \in 1..(Cardinality(DOMAIN W.nameservers) + 1) :
             /\ n \notin DOMAIN W.nameservers
             /\ \A m \in 1..(n - 1) : m \in DOMAIN W.nameservers

\* the struct nameserver that evdns_nameserver_add fills in
NewNameserver(address) ==
    [address |-> address, state |-> 1, failed_times |-> 0, timedout |-> 0,
     choaked |-> 0, write_waiting |-> 0, timeout_event |-> FALSE,
     timeout_tv |-> 0, freed |-> FALSE]

\* ret: 0 ok, 3 duplicate, -1 out of memory
evdns_nameserver_add(W, address) ==
    IF \E i \in 1..Len(W.server_head) :
           W.nameservers[W.server_head[i]].address = address
    THEN Return(W, 3)
    ELSE IF malloc_nameserver(W) = NULL THEN Return(W, -1)
    ELSE Let(malloc_nameserver(W), LAMBDA ns :
         [W EXCEPT
            !.nameservers = [m \in DOMAIN W.nameservers \cup {ns} |->
                IF m = ns THEN NewNameserver(address) ELSE W.nameservers[m]],
            \* ns->next = server_head->next; server_head->next = ns
            !.server_head = IF @ = <<>> THEN <<ns>>
                            ELSE <<Head(@), ns>> \o Tail(@),
            !.global_good_nameservers = @ + 1,
            !.ret = 0])

\* the loop of evdns_clear_nameservers_and_suspend over the inflight list
RECURSIVE suspend_walk(_, _)
suspend_walk(W, reqs) ==
    IF reqs = <<>> THEN W
    ELSE suspend_walk(
             [W EXCEPT !.requests[Head(reqs)].tx_count = 0,
                       !.requests[Head(reqs)].reissue_count = 0,
                       !.requests[Head(reqs)].ns = NULL,
                       !.requests[Head(reqs)].timeout_event = FALSE,
                       !.requests[Head(reqs)].trans_id = 0,
                       !.requests[Head(reqs)].transmit_me = 0,
                       !.global_requests_waiting = @ + 1,
                       \* inserted at the tail, then the head is moved back by one
                       !.req_waiting_head = <<Head(reqs)>> \o @,
                       !.hist = Forget(@, Head(reqs))],
             Tail(reqs))

evdns_clear_nameservers_and_suspend(W) ==
    IF W.server_head = <<>> THEN Return(W, 0)
    ELSE [suspend_walk(
              [W EXCEPT
                  !.nameservers = [m \in DOMAIN W.nameservers |->
                      IF m \in Range(W.server_head)
                      THEN [W.nameservers[m] EXCEPT !.freed = TRUE,
                                                    !.timeout_event = FALSE]
                      ELSE W.nameservers[m]],
                  !.server_head = <<>>,
                  !.global_good_nameservers = 0],
              W.req_head)
          EXCEPT !.req_head = <<>>, !.global_requests_inflight = 0, !.ret = 0]

evdns_resume(W) ==
    Return(Call("evdns_requests_pump_waiting_queue", W, <<>>), 0)

\* history: shutdown retires request r without a callback
NoteSilenced(W, r) ==
    IF W.requests[r].user_callback = "user"
    THEN [W EXCEPT !.hist.silenced = @ \cup {W.requests[r].user_pointer}]
    ELSE W

\* the two loops of evdns_shutdown: list is "inflight" or "waiting"
RECURSIVE shutdown_loop(_, _, _)
shutdown_loop(W, list, fail_requests) ==
    IF (IF list = "inflight" THEN W.req_head ELSE W.req_waiting_head) = <<>>
    THEN W
    ELSE Let(Head(IF list = "inflight" THEN W.req_head ELSE W.req_waiting_head),
             LAMBDA req :
         Bind(IF fail_requests = 1
              THEN Call("reply_callback", W, <<req, DNS_ERR_SHUTDOWN>>)
              ELSE NoteSilenced(W, req),
              LAMBDA a :
         Bind(Call("request_finished", a, <<req, list>>),
              LAMBDA b : shutdown_loop(b, list, fail_requests))))

\* evdns_shutdown after its two loops
shutdown_teardown(W) ==
    [W EXCEPT
        !.global_requests_inflight = 0,
        !.global_requests_waiting = 0,
        \* the sockets are closed and the objects freed; the probe timers stay
        !.nameservers = [m \in DOMAIN W.nameservers |->
            IF m \in Range(W.server_head)
            THEN [W.nameservers[m] EXCEPT !.freed = TRUE]
            ELSE W.nameservers[m]],
        !.server_head = <<>>,
        !.global_good_nameservers = 0,
        \* free(global_search_state), whatever its reference count
        !.search_states = [x \in DOMAIN W.search_states |->
            IF x = W.global_search_state
            THEN [W.search_states[x] EXCEPT !.freed = TRUE]
            ELSE W.search_states[x]],
        !.global_search_state = NULL]

evdns_shutdown(W, fail_requests) ==
    Bind(shutdown_loop(W, "inflight", fail_requests), LAMBDA a :
    Bind(shutdown_loop(a, "waiting", fail_requests), LAMBDA b :
        shutdown_teardown(b)))

(***************************************************************************)
(* The search configuration functions.                                     *)
(***************************************************************************)
malloc_search_state(W) ==
    CHOOSE x \in 1..(Cardinality(DOMAIN W.search_states) + 1) :
        x \notin DOMAIN W.search_states

\* ret: the new state
search_state_new(W) ==
    [W EXCEPT !.search_states =
                  [y \in DOMAIN W.search_states \cup {malloc_search_state(W)} |->
                      IF y \in DOMAIN W.search_states THEN W.search_states[y]
                      ELSE [refcount |-> 1, ndots |-> 1, num_domains |-> 0,
                            head |-> <<>>, freed |-> FALSE]],
              !.ret = malloc_search_state(W)]

\* if (!global_search_state) global_search_state = search_state_new()
search_state_ensure(W) ==
    IF W.global_search_state # NULL THEN W
    ELSE Let(search_state_new(W), LAMBDA n :
             [n EXCEPT !.global_search_state = n.ret])

search_postfix_clear(W) ==
    Bind(Call("search_state_decref", W, <<W.global_search_state>>), LAMBDA d :
    Let(search_state_new(d), LAMBDA n :
        [n EXCEPT !.global_search_state = n.ret]))

evdns_search_clear(W) == Call("search_postfix_clear", W, <<>>)

\* the new domain is pushed at the head of the list
search_postfix_add(W, domain) ==
    Let(search_state_ensure(W), LAMBDA a :
        [a EXCEPT !.search_states[a.global_search_state].num_domains = @ + 1,
                  !.search_states[a.global_search_state].head = <<domain>> \o @])

evdns_search_add(W, domain) == Call("search_postfix_add", W, <<domain>>)

evdns_search_ndots_set(W, ndots) ==
    Let(search_state_ensure(W), LAMBDA a :
        [a EXCEPT !.search_states[a.global_search_state].ndots = ndots])

(***************************************************************************)
(* The server port.                                                        *)
(***************************************************************************)
evdns_add_server_port(W) ==
    [W EXCEPT !.port = [refcnt |-> 1, choaked |-> 0, pending_replies |-> NULL,
                        events |-> "read"]]

\* malloc(sizeof(struct server_request)): a block not handed out before, or
\* NULL
malloc_server_request(W) ==
    IF Len(W.server_requests) >= MaxServerRequests THEN NULL
    ELSE Len(W.server_requests) + 1

\* the struct server_request after request_parse's memset
NewServerRequest ==
    [next_pending |-> NULL, prev_pending |-> NULL, response |-> FALSE,
     freed |-> FALSE]

\* a dereference of the server request pointer q
sr_deref(W, q) ==
    IF q = NULL THEN Crash(W)
    ELSE IF W.server_requests[q].freed THEN use_after_free(W)
    ELSE W

\* a well-formed query in the packet: the request is handed to the user
request_parse(W, flags) ==
    IF FlagQR(flags) = 1 THEN Return(W, -1)
    ELSE IF malloc_server_request(W) = NULL THEN Return(W, -1)
    ELSE [W EXCEPT !.server_requests = Append(@, NewServerRequest),
                   !.port.refcnt = @ + 1,
                   !.ret = 0]

\* one datagram waits on the socket; the next recvfrom gives EAGAIN
server_port_read(W, flags) == Call("request_parse", W, <<flags>>)

\* the part of evdns_server_request_free that unlinks q from the pending list
server_request_unlink(W, q) ==
    Let(W.server_requests[q], LAMBDA req :
        IF req.next_pending # NULL /\ req.next_pending # q
        THEN [W EXCEPT
                 !.server_requests[req.next_pending].prev_pending =
                     req.prev_pending,
                 !.server_requests[req.prev_pending].next_pending =
                     req.next_pending]
        ELSE W)

evdns_server_request_free(W, q) ==
    IF W.server_requests[q].freed THEN Crash(W)
    ELSE Let([W EXCEPT
                 !.port.pending_replies =
                     IF @ = q
                     THEN IF W.server_requests[q].next_pending # NULL
                          THEN W.server_requests[q].next_pending
                          ELSE NULL
                     ELSE @,
                 !.port.refcnt = @ - 1],
             LAMBDA p :
                 [server_request_unlink(p, q)
                     EXCEPT !.server_requests[q].freed = TRUE])

evdns_request_drop(W, q) ==
    Return(Call("evdns_server_request_free", W, <<q>>), 0)

\* the loop of server_port_flush once a reply is pending
server_port_flush_next(W, q) ==
    Bind(sr_deref(W, q), LAMBDA d :
    Bind(Draw(d, d.env.sends), LAMBDA s :
        IF s.ret # "ok" THEN Return(s, 0)
        ELSE Bind(Call("evdns_server_request_free", s, <<q>>), LAMBDA f :
                 Call("server_port_flush", f, <<>>))))

server_port_flush(W) ==
    IF W.port.pending_replies # NULL
    THEN server_port_flush_next(W, W.port.pending_replies)
    ELSE [W EXCEPT !.port.events = "read", !.ret = 0]

server_port_ready_callback(W, write, read, flags) ==
    Bind(IF write
         THEN Call("server_port_flush", [W EXCEPT !.port.choaked = 0], <<>>)
         ELSE W,
         LAMBDA f : IF read THEN Call("server_port_read", f, <<flags>>) ELSE f)

\* what encoding the response gives: it fits the buffer, or not
FormatResults == {"ok", "overflow"}

evdns_request_response_format(W, q, flags) ==
    Bind(Draw(W, FormatResults), LAMBDA d :
        IF d.ret = "ok"
        THEN [d EXCEPT !.server_requests[q].response = TRUE, !.ret = 0]
        ELSE Return(d, -1))

\* history: what evdns_request_respond on q met
NoteRespond(W, sent) == [W EXCEPT !.hist.respond.sent = sent]

\* the pending list of the port, from its head
RECURSIVE PendingFrom(_, _, _, _)
PendingFrom(reqs, head, q, n) ==
    IF n = 0 \/ q = NULL THEN <<>>
    ELSE <<q>> \o (IF reqs[q].next_pending = head THEN <<>>
                   ELSE PendingFrom(reqs, head, reqs[q].next_pending, n - 1))
PendingReplies(W) ==
    IF W.port = NoPort THEN <<>>
    ELSE PendingFrom(W.server_requests, W.port.pending_replies,
                     W.port.pending_replies, MaxServerRequests)

\* the send would block: q goes to the tail of the pending list
server_request_enqueue(W, q) ==
    IF W.port.pending_replies # NULL
    THEN Bind(sr_deref(W, W.port.pending_replies), LAMBDA d :
         Let(d.port.pending_replies, LAMBDA head :
         Let(d.server_requests[head].prev_pending, LAMBDA tail :
             [d EXCEPT !.server_requests =
                 [x \in DOMAIN @ |->
                     IF x = q
                     THEN [@[x] EXCEPT !.prev_pending = tail,
                                       !.next_pending = head]
                     ELSE IF x = tail /\ x = head
                     THEN [@[x] EXCEPT !.next_pending = q,
                                       !.prev_pending = q]
                     ELSE IF x = tail THEN [@[x] EXCEPT !.next_pending = q]
                     ELSE IF x = head THEN [@[x] EXCEPT !.prev_pending = q]
                     ELSE @[x]]])))
    ELSE [W EXCEPT !.server_requests[q].prev_pending = q,
                   !.server_requests[q].next_pending = q,
                   !.port.pending_replies = q,
                   !.port.choaked = 1,
                   !.port.events = "readwrite"]

\* the end of evdns_request_respond when the reply is sent: req is released
\* and then read once more
server_request_sent(W, q) ==
    Bind(Call("evdns_server_request_free", W, <<q>>), LAMBDA f :
    Bind(sr_deref(f, q), LAMBDA d :
        Return(IF d.port.pending_replies # NULL
               THEN Call("server_port_flush", d, <<>>)
               ELSE d, 0)))

\* evdns_request_respond from the sendto on
server_request_send(W, q) ==
    Bind(Draw(W, W.env.sends), LAMBDA s :
        IF s.ret = "err" THEN Return(NoteRespond(s, "err"), -1)
        ELSE IF s.ret = "eagain"
        THEN Return(server_request_enqueue(NoteRespond(s, "eagain"), q), 1)
        ELSE server_request_sent(NoteRespond(s, "ok"), q))

server_request_respond(W, q, flags) ==
    IF ~W.server_requests[q].response
    THEN Bind(Call("evdns_request_response_format", W, <<q, flags>>),
              LAMBDA r :
                  IF r.ret < 0 THEN NoteRespond(r, "format")
                  ELSE server_request_send(r, q))
    ELSE server_request_send(W, q)

evdns_request_respond(W, q, flags) ==
    Bind(server_request_respond(
             [W EXCEPT !.hist.respond =
                 [req |-> q, sent |-> "none", returned |-> FALSE, value |-> 0,
                  refcnt |-> W.port.refcnt, pending |-> PendingReplies(W)]],
             q, flags),
         LAMBDA r : [r EXCEPT !.hist.respond.returned = TRUE,
                              !.hist.respond.value = r.ret])

(***************************************************************************)
(* Parsing resolv.conf files.  A file is what open, fstat, malloc and read *)
(* make of it and, when it is read, its lines as the tokens strtok_r finds. *)
(***************************************************************************)
\* the address 127.0.0.1
LOOPBACK == 127

evdns_nameserver_ip_add(W, address) ==
    IF address = NULL THEN Return(W, 4)
    ELSE Call("evdns_nameserver_add", W, <<address>>)

search_reverse(W) ==
    [W EXCEPT !.search_states[W.global_search_state].head =
                  [i \in 1..Len(@) |-> @[Len(@) + 1 - i]]]

\* gethostname: the domain part of the host name, or <<>> when it has none
search_set_from_hostname(W) ==
    Bind(Call("search_postfix_clear", W, <<>>), LAMBDA c :
    Bind(Draw(c, c.env.hostnames), LAMBDA h :
        IF h.ret = <<>> THEN h
        ELSE Call("search_postfix_add", h, <<h.ret>>)))

evdns_resolv_set_defaults(W, flags) ==
    Bind(IF "SEARCH" \in flags THEN Call("search_set_from_hostname", W, <<>>)
         ELSE W,
         LAMBDA s : IF "NAMESERVERS" \in flags
                    THEN Call("evdns_nameserver_ip_add", s, <<LOOPBACK>>)
                    ELSE s)

\* the loop of the search line over its tokens
RECURSIVE search_line_add(_, _)
search_line_add(W, domains) ==
    IF domains = <<>> THEN W
    ELSE Bind(Call("search_postfix_add", W, <<Head(domains)>>), LAMBDA a :
             search_line_add(a, Tail(domains)))

\* line is [key, val]: the first token and what follows it; val is NULL
\* (or -1 for a number) when it does not parse
resolv_conf_parse_line(W, line, flags) ==
    IF line.key = "nameserver"
    THEN IF line.val # NULL
         THEN Call("evdns_nameserver_add", W, <<line.val>>)
         ELSE W
    ELSE IF line.key = "domain" /\ "SEARCH" \in flags
    THEN IF line.val # <<>>
         THEN Bind(Call("search_postfix_clear", W, <<>>), LAMBDA c :
                  Call("search_postfix_add", c, <<line.val>>))
         ELSE W
    ELSE IF line.key = "search" /\ "SEARCH" \in flags
    THEN Bind(Call("search_postfix_clear", W, <<>>), LAMBDA c :
         Bind(search_line_add(c, line.val), LAMBDA a : search_reverse(a)))
    ELSE IF line.key = "ndots"
    THEN IF line.val = -1 \/ "SEARCH" \notin flags THEN W
         ELSE Call("evdns_search_ndots_set", W, <<line.val>>)
    ELSE IF line.key = "timeout"
    THEN IF line.val = -1 \/ "MISC" \notin flags THEN W
         ELSE [W EXCEPT !.global_timeout = line.val]
    ELSE IF line.key = "attempts"
    THEN IF line.val = -1 \/ "MISC" \notin flags THEN W
         ELSE [W EXCEPT !.global_max_retransmits = Min(line.val, 255)]
    ELSE W

\* the loop of evdns_resolv_conf_parse over the lines
resolv_conf_parse_lines(W, lines, flags) ==
    IF lines = <<>> THEN W
    ELSE Bind(Call("resolv_conf_parse_line", W, <<Head(lines), flags>>),
              LAMBDA l : Call("resolv_conf_parse_lines", l, <<Tail(lines), flags>>))

\* evdns_resolv_conf_parse once the lines are parsed
resolv_conf_parse_end(W, flags) ==
    Bind(IF W.server_head = <<>> /\ "NAMESERVERS" \in flags
         THEN Call("evdns_nameserver_ip_add", W, <<LOOPBACK>>)
         ELSE W,
         LAMBDA n :
             Return(IF "SEARCH" \in flags
                       /\ (IF n.global_search_state = NULL THEN TRUE
                           ELSE n.search_states[n.global_search_state]
                                    .num_domains = 0)
                    THEN Call("search_set_from_hostname", n, <<>>)
                    ELSE n, 0))

\* file.state: "noent" (open fails), "nostat" (fstat fails), "empty",
\* "large" (over 65535 bytes), "nomem" (malloc fails), "short" (read gives
\* fewer bytes), "read"
evdns_resolv_conf_parse(W, flags, file) ==
    IF file.state = "noent"
    THEN Return(Call("evdns_resolv_set_defaults", W, <<flags>>), 0)
    ELSE IF file.state = "nostat" THEN Return(W, 2)
    ELSE IF file.state = "empty"
    THEN Return(Call("evdns_resolv_set_defaults", W, <<flags>>), 0)
    ELSE IF file.state = "large" THEN Return(W, 3)
    ELSE IF file.state = "nomem" THEN Return(W, 4)
    ELSE IF file.state = "short" THEN Return(W, 5)
    ELSE Bind(Call("resolv_conf_parse_lines", W, <<file.lines, flags>>),
              LAMBDA l : Call("resolv_conf_parse_end", l, <<flags>>))

(***************************************************************************)
(* Call(f, W, a): the C function named f called on machine state W with    *)
(* the arguments a.  Nothing runs once the process has stopped.            *)
(***************************************************************************)
Call(f, W, a) ==
    IF W.halt # "run" THEN W
    ELSE CASE f = "transaction_id_pick" -> transaction_id_pick(W)
           [] f = "nameserver_pick" -> nameserver_pick(W)
           [] f = "nameserver_failed" -> nameserver_failed(W, a[1])
           [] f = "nameserver_probe_callback" ->
                  nameserver_probe_callback(W, a[1], a[2])
           [] f = "evdns_request_transmit_to" ->
                  evdns_request_transmit_to(W, a[1], a[2])
           [] f = "evdns_request_transmit" -> evdns_request_transmit(W, a[1])
           [] f = "evdns_transmit" -> evdns_transmit(W)
           [] f = "request_new" ->
                  request_new(W, a[1], a[2], a[3], a[4], a[5])
           [] f = "request_submit" -> request_submit(W, a[1])
           [] f = "evdns_requests_pump_waiting_queue" ->
                  evdns_requests_pump_waiting_queue(W)
           [] f = "search_state_decref" -> search_state_decref(W, a[1])
           [] f = "search_request_finished" -> search_request_finished(W, a[1])
           [] f = "request_finished" -> request_finished(W, a[1], a[2])
           [] f = "request_reissue" -> request_reissue(W, a[1])
           [] f = "search_request_new" ->
                  search_request_new(W, a[1], a[2], a[3], a[4], a[5])
           [] f = "search_try_next" -> search_try_next(W, a[1])
           [] f = "reply_callback" -> reply_callback(W, a[1], a[2])
           [] f = "reply_handle_fail" -> reply_handle_fail(W, a[1], a[2])
           [] f = "reply_handle" -> reply_handle(W, a[1], a[2], a[3])
           [] f = "reply_parse" -> reply_parse(W, a[1], a[2], a[3])
           [] f = "nameserver_read" ->
                  nameserver_read(W, a[1], a[2], a[3], a[4], a[5])
           [] f = "evdns_request_timeout_callback" ->
                  evdns_request_timeout_callback(W, a[1])
           [] f = "nameserver_send_probe" -> nameserver_send_probe(W, a[1])
           [] f = "nameserver_prod_callback" -> nameserver_prod_callback(W, a[1])
           [] f = "nameserver_ready_callback_write" ->
                  nameserver_ready_callback_write(W, a[1])
           [] f = "evdns_resolve_ipv4" -> evdns_resolve_ipv4(W, a[1], a[2], a[3])
           [] f = "evdns_resolve_reverse" ->
                  evdns_resolve_reverse(W, a[1], a[2], a[3])
           [] f = "evdns_nameserver_add" -> evdns_nameserver_add(W, a[1])
           [] f = "evdns_clear_nameservers_and_suspend" ->
                  evdns_clear_nameservers_and_suspend(W)
           [] f = "evdns_resume" -> evdns_resume(W)
           [] f = "evdns_shutdown" -> evdns_shutdown(W, a[1])
           [] f = "search_postfix_clear" -> search_postfix_clear(W)
           [] f = "evdns_search_clear" -> evdns_search_clear(W)
           [] f = "search_postfix_add" -> search_postfix_add(W, a[1])
           [] f = "evdns_search_add" -> evdns_search_add(W, a[1])
           [] f = "evdns_search_ndots_set" -> evdns_search_ndots_set(W, a[1])
           [] f = "evdns_add_server_port" -> evdns_add_server_port(W)
           [] f = "evdns_nameserver_ip_add" -> evdns_nameserver_ip_add(W, a[1])
           [] f = "search_set_from_hostname" -> search_set_from_hostname(W)
           [] f = "evdns_resolv_set_defaults" ->
                  evdns_resolv_set_defaults(W, a[1])
           [] f = "resolv_conf_parse_line" ->
                  resolv_conf_parse_line(W, a[1], a[2])
           [] f = "resolv_conf_parse_lines" ->
                  resolv_conf_parse_lines(W, a[1], a[2])
           [] f = "resolv_conf_parse_end" -> resolv_conf_parse_end(W, a[1])
           [] f = "evdns_resolv_conf_parse" ->
                  evdns_resolv_conf_parse(W, a[1], a[2])
           [] f = "request_parse" -> request_parse(W, a[1])
           [] f = "server_port_read" -> server_port_read(W, a[1])
           [] f = "evdns_server_request_free" ->
                  evdns_server_request_free(W, a[1])
           [] f = "evdns_request_drop" -> evdns_request_drop(W, a[1])
           [] f = "server_port_flush" -> server_port_flush(W)
           [] f = "server_port_ready_callback" ->
                  server_port_ready_callback(W, a[1], a[2], a[3])
           [] f = "evdns_request_response_format" ->
                  evdns_request_response_format(W, a[1], a[2])
           [] f = "evdns_request_respond" -> evdns_request_respond(W, a[1], a[2])

(***************************************************************************)
(* Handlers: the calls of the user and the callbacks of the event loop.    *)
(***************************************************************************)
\* the states the call of f on W0 with arguments a may end in, over all the
\* inputs it may read
RECURSIVE Outcomes(_, _, _, _)
Outcomes(f, W0, a, tape) ==
    Let(Call(f, [W0 EXCEPT !.tape = tape], a), LAMBDA r :
        IF r.halt = "starved"
        THEN IF Len(tape) >= MaxTape THEN {}
             ELSE UNION {Outcomes(f, W0, a, Append(tape, v)) : v \in r.need}
        ELSE IF r.halt = "stuck" THEN {}
        ELSE {r})

\* released nameserver objects that nothing points to any more are forgotten
Referenced(r) ==
    {n \in DOMAIN r.nameservers :
        \/ ~r.nameservers[n].freed
        \/ r.nameservers[n].timeout_event
        \/ \E q \in DOMAIN r.requests :
               \/ r.requests[q].ns = n
               \/ r.requests[q].user_callback = "probe"
                  /\ r.requests[q].user_pointer = n}

\* and so are released search states
ReferencedStates(r) ==
    {x \in DOMAIN r.search_states :
        \/ ~r.search_states[x].freed
        \/ \E q \in DOMAIN r.requests : r.requests[q].search_state = x}

Commit(r) ==
    /\ req_head' = r.req_head
    /\ req_waiting_head' = r.req_waiting_head
    /\ requests' = r.requests
    /\ server_head' = r.server_head
    /\ nameservers' = [n \in Referenced(r) |-> r.nameservers[n]]
    /\ global_good_nameservers' = r.global_good_nameservers
    /\ global_requests_inflight' = r.global_requests_inflight
    /\ global_requests_waiting' = r.global_requests_waiting
    /\ global_search_state' = r.global_search_state
    /\ search_states' = [x \in ReferencedStates(r) |-> r.search_states[x]]
    /\ crashed' = (r.halt = "crashed")
    /\ calls' = r.calls
    /\ port' = r.port
    /\ server_requests' = r.server_requests
    /\ hist' = r.hist
    /\ global_max_retransmits' = r.global_max_retransmits
    /\ global_timeout' = r.global_timeout
    /\ UNCHANGED <<global_max_requests_inflight,
                   global_max_nameserver_timeout, env, wire>>

Do(f, a) == \E r \in Outcomes(f, Cur, a, <<>>) : Commit(r)

\* the API may be called: the process is alive and has not shut down
Alive == ~crashed /\ hist.shutdown = "no"

(***************************************************************************)
(* Inputs of the model.                                                    *)
(***************************************************************************)
\* the names the user resolves, as sequences of labels
Names == {<<"www">>, <<"a", "b">>}
\* the search domains the user configures
Domains == {<<"corp", "example">>, <<"example", "com">>}
\* the flags words of the packets nameservers send: a query, NOERROR,
\* SERVFAIL, NXDOMAIN, a truncated answer
ReplyFlags == {0, 32768, 32770, 32771, 33280}
\* the flags words of the packets a server port receives: a query, a reply
QueryFlags == {0, 32768}

\* the ids of the packets that can arrive: those of the inflight requests
\* and one other
PacketIds == InflightIds(Cur) \cup {TRANS_ID_NONE}

NextCall == Cardinality(DOMAIN calls) + 1
WithCall(W, ptr, name) ==
    [W EXCEPT !.calls = [c \in DOMAIN W.calls \cup {ptr} |->
                 IF c = ptr THEN [count |-> 0, result |-> "none", made |-> 0,
                             name |-> name, asked |-> <<>>]
                 ELSE W.calls[c]]]

\* the call registers its callback only when it returns 0
CommitCall(r, ptr) ==
    Commit(IF r.halt # "run" \/ r.ret # 0
           THEN [r EXCEPT !.calls = [c \in DOMAIN r.calls \ {ptr} |-> r.calls[c]]]
           ELSE r)

(***************************************************************************)
(* The initial state: the statics of eventdns.c.                           *)
(***************************************************************************)
InitProgram ==
    /\ req_head = <<>>
    /\ req_waiting_head = <<>>
    /\ requests = <<>>
    /\ server_head = <<>>
    /\ nameservers = <<>>
    /\ global_good_nameservers = 0
    /\ global_requests_inflight = 0
    /\ global_requests_waiting = 0
    /\ global_search_state = NULL
    /\ search_states = <<>>
    /\ crashed = FALSE
    /\ calls = <<>>
    /\ port = NoPort
    /\ server_requests = <<>>
    /\ hist = [counts_ok |-> TRUE, tx_order |-> <<>>, silenced |-> {},
               shutdown |-> "no", owed |-> {}, suspends |-> 0,
               retired |-> 0, pumped |-> 0, blocked |-> {}, errored |-> {},
               last_tx |-> <<>>, sends |-> <<>>, added |-> <<>>,
               respond |-> NoRespond,
               parses |-> 0]

(***************************************************************************)
(* The actions: one per call of the user and per callback of the loop.     *)
(***************************************************************************)
ResolveIpv4 ==
    /\ Alive
    /\ NextCall <= env.calls
    /\ \E name \in env.names, flags \in env.resolve_flags :
         \E r \in Outcomes("evdns_resolve_ipv4", WithCall(Cur, NextCall, name),
                           <<name, flags, NextCall>>, <<>>) :
             CommitCall(r, NextCall)

ResolveReverse ==
    /\ Alive
    /\ NextCall <= env.calls
    /\ \E r \in Outcomes("evdns_resolve_reverse",
                         WithCall(Cur, NextCall, <<"1">>),
                         <<"1", 0, NextCall>>, <<>>) :
           CommitCall(r, NextCall)

\* addresses are interchangeable: the next new one, or one already there
NameserverAdd ==
    /\ Alive
    /\ \E address \in 1..Min(Len(server_head) + 1, env.addresses) :
         Do("evdns_nameserver_add", <<address>>)

\* a datagram arrives on the socket of a registered nameserver
NameserverRead ==
    /\ ~crashed
    /\ \E i \in 1..Len(server_head), id \in PacketIds,
          flags \in env.reply_flags, body \in env.reply_bodies :
         Do("nameserver_read", <<server_head[i], "ok", id, flags, body>>)

\* recv(2) fails on the socket of a nameserver: on the sockets the run
\* lets fail, and only while the nameserver has not failed before
NameserverReadError ==
    /\ ~crashed
    /\ \E i \in 1..Len(server_head) :
         /\ nameservers[server_head[i]].address \in env.recv_err
         /\ nameservers[server_head[i]].timeout_tv = 0
         /\ Do("nameserver_read", <<server_head[i], "err", 0, 0, "empty">>)

\* the socket of a nameserver that waits for it becomes writable
NameserverWritable ==
    /\ ~crashed
    /\ \E i \in 1..Len(server_head) :
         /\ nameservers[server_head[i]].write_waiting = 1
         /\ Do("nameserver_ready_callback_write", <<server_head[i]>>)

\* the timer of an inflight request fires
RequestTimeout ==
    /\ ~crashed
    /\ \E r \in DOMAIN requests :
         /\ requests[r].timeout_event
         /\ Do("evdns_request_timeout_callback", <<r>>)

\* the probe timer of a nameserver fires
ProbeTimer ==
    /\ ~crashed
    /\ \E n \in DOMAIN nameservers :
         /\ nameservers[n].timeout_event
         /\ nameservers[n].failed_times <= env.probes
         /\ Do("nameserver_prod_callback", <<n>>)

ClearAndSuspend ==
    /\ Alive
    /\ hist.suspends < env.suspends
    /\ \E r \in Outcomes("evdns_clear_nameservers_and_suspend",
                         [Cur EXCEPT !.hist.suspends = @ + 1], <<>>, <<>>) :
         Commit(r)

Resume ==
    /\ Alive
    /\ env.suspends > 0
    /\ Do("evdns_resume", <<>>)

Shutdown ==
    /\ Alive
    /\ \E f \in env.shutdown :
         \E r \in Outcomes("evdns_shutdown",
                 [Cur EXCEPT
                     !.hist.shutdown = IF f = 1 THEN "fail" ELSE "quiet",
                     !.hist.owed = {requests[q].user_pointer :
                         q \in {x \in DOMAIN requests :
                                    requests[x].user_callback = "user"}}],
                 <<f>>, <<>>) :
             Commit(r)

\* the domains of the search list new requests use
Configured ==
    IF global_search_state = NULL THEN {}
    ELSE Range(search_states[global_search_state].head)

SearchAdd ==
    /\ Alive
    /\ DOMAIN calls = {}
    /\ \E d \in env.domains \ Configured :
         \E r \in Outcomes("evdns_search_add",
                           [Cur EXCEPT !.hist.added = Append(@, d)],
                           <<d>>, <<>>) :
             Commit(r)

SearchNdotsSet ==
    /\ Alive
    /\ DOMAIN calls = {}
    /\ \E ndots \in env.ndots :
         /\ IF global_search_state = NULL THEN TRUE
            ELSE search_states[global_search_state].ndots # ndots
         /\ Do("evdns_search_ndots_set", <<ndots>>)

\* the files evdns_resolv_conf_parse is given
NoLines == <<>>
Files ==
    {[state |-> st, lines |-> NoLines] :
        st \in {"noent", "nostat", "empty", "large", "nomem", "short"}}
    \cup {[state |-> "read", lines |-> l] : l \in
        {<<[key |-> "nameserver", val |-> 1]>>,
         <<[key |-> "nameserver", val |-> NULL]>>,
         <<[key |-> "domain", val |-> <<"corp", "example">>]>>,
         <<[key |-> "search",
            val |-> <<<<"corp", "example">>, <<"example", "com">>>>]>>,
         <<[key |-> "ndots", val |-> 2]>>,
         <<[key |-> "timeout", val |-> 2], [key |-> "attempts", val |-> 300]>>,
         <<[key |-> "attempts", val |-> 1],
           [key |-> "nameserver", val |-> 2]>>,
         <<[key |-> "sortlist", val |-> NULL]>>}}
\* the flags argument: the options that are set
OptionSets == SUBSET {"SEARCH", "NAMESERVERS", "MISC"}

ResolvConfParse ==
    /\ Alive
    /\ hist.parses < env.parses
    /\ \E flags \in OptionSets, file \in Files :
         \E r \in Outcomes("evdns_resolv_conf_parse",
                           [Cur EXCEPT !.hist.parses = @ + 1],
                           <<flags, file>>, <<>>) :
             Commit(r)

AddServerPort ==
    /\ Alive
    /\ env.server
    /\ port = NoPort
    /\ Do("evdns_add_server_port", <<>>)

\* the requests the user holds: parsed, and neither released nor pending
UserHeld ==
    {q \in DOMAIN server_requests :
        ~server_requests[q].freed /\ server_requests[q].next_pending = NULL}

\* the socket of the port is ready: for reading (one datagram), for
\* writing when the port asked for it, or for both
ServerPortReady ==
    /\ ~crashed
    /\ port # NoPort
    /\ \E read \in BOOLEAN, flags \in QueryFlags,
          write \in (IF port.events = "readwrite" THEN BOOLEAN ELSE {FALSE}) :
         /\ read \/ write
         /\ read \/ flags = 0
         /\ Do("server_port_ready_callback", <<write, read, flags>>)

RequestRespond ==
    /\ ~crashed
    /\ \E q \in UserHeld : Do("evdns_request_respond", <<q, 0>>)

RequestDrop ==
    /\ ~crashed
    /\ \E q \in UserHeld : Do("evdns_request_drop", <<q>>)

(***************************************************************************)
(* Names on the wire.  A packet is a sequence of bytes; packet[j] of the   *)
(* code is packet[j + 1] here.  A name is the sequence of its characters.  *)
(***************************************************************************)
DOT == 46

\* the loop of name_parse, at its head: j, name_end, the Len(out)
\* characters written to name_out so far; seen holds the <<j, cp>> the
\* loop head has been at.  The loop has no other state that it reads, so
\* being at a pair of seen again means it never returns.
RECURSIVE name_parse_loop(_, _, _, _, _, _, _)
name_parse_loop(packet, length, j, name_end, out, name_out_len, seen) ==
    LET fail == [halt |-> "return", ret |-> -1, idx |-> -1, name |-> <<>>]
    IN  IF <<j, Len(out)>> \in seen
        THEN [halt |-> "loop", ret |-> -1, idx |-> -1, name |-> <<>>]
        ELSE IF j >= length THEN fail
        ELSE LET label_len == packet[j + 1]
                 seen1 == seen \cup {<<j, Len(out)>>}
             IN  IF label_len = 0
                 THEN IF Len(out) >= name_out_len THEN fail
                      ELSE [halt |-> "return", ret |-> 0,
                            idx |-> IF name_end < 0 THEN j + 1 ELSE name_end,
                            name |-> out]
                 ELSE IF label_len >= 64      \* label_len & 0xc0
                 THEN IF j + 1 >= length THEN fail
                      ELSE LET ptr_low == packet[j + 2]
                               to == (label_len % 64) * 256 + ptr_low
                           IN  IF to >= length THEN fail
                               ELSE name_parse_loop(packet, length, to,
                                        IF name_end < 0 THEN j + 2
                                                        ELSE name_end,
                                        out, name_out_len, seen1)
                 ELSE LET dotted == IF out # <<>> THEN Append(out, DOT)
                                                  ELSE out
                      IN  IF out # <<>> /\ Len(out) + 1 >= name_out_len
                          THEN fail
                          ELSE IF Len(dotted) + label_len >= name_out_len
                          THEN fail
                          \* the memcpy reads past the packet; the next
                          \* turn of the loop then finds j >= length
                          ELSE IF j + 1 + label_len > length THEN fail
                          ELSE name_parse_loop(packet, length,
                                   j + 1 + label_len, name_end,
                                   dotted \o SubSeq(packet, j + 2,
                                                    j + 1 + label_len),
                                   name_out_len, seen1)

name_parse(packet, length, idx, name_out_len) ==
    name_parse_loop(packet, length, idx, -1, <<>>, name_out_len, {})

\* strchr(name, '.'): the offset of the first dot of name, or -1
RECURSIVE strchr_dot(_, _)
strchr_dot(name, from) ==
    IF from > Len(name) THEN -1
    ELSE IF name[from] = DOT THEN from - 1
    ELSE strchr_dot(name, from + 1)

\* the loop of dnsname_to_labels with no table: buf holds the j bytes
\* written so far, name is what is left of the name
RECURSIVE dnsname_to_labels_loop(_, _, _)
dnsname_to_labels_loop(buf, buf_len, name) ==
    LET j == Len(buf)
        dot == strchr_dot(name, 1)
        label_len == IF dot < 0 THEN Len(name) ELSE dot
        label == SubSeq(name, 1, label_len)
    IN  IF label_len > 63 THEN [ret |-> -1, buf |-> buf]
        ELSE IF j + label_len + 1 > buf_len THEN [ret |-> -2, buf |-> buf]
        ELSE IF dot < 0
        THEN LET done == Append(buf, label_len) \o label
             IN  IF done[Len(done)] # 0
                 THEN [ret |-> Len(done) + 1, buf |-> Append(done, 0)]
                 ELSE [ret |-> Len(done), buf |-> done]
        ELSE dnsname_to_labels_loop(Append(buf, label_len) \o label, buf_len,
                                    SubSeq(name, dot + 2, Len(name)))

\* dnsname_to_labels that ends every name with a 0 of its own
dnsname_to_labels_always_zero(buf, buf_len, name, name_len) ==
    LET e == dnsname_to_labels_loop(buf, buf_len, name)
    IN  IF e.ret >= 0 /\ (name = <<>> \/ name[Len(name)] = DOT)
        THEN [ret |-> e.ret + 1, buf |-> Append(e.buf, 0)]
        ELSE e

dnsname_to_labels(buf, buf_len, name, name_len) ==
    IF name_len > 255 THEN [ret |-> -2, buf |-> buf]
    ELSE dnsname_to_labels_loop(buf, buf_len, name)

\* the packets and the names of the runs
MaxPacketLen == 4
PacketBytes == {0, 1, 2, 97, 192}
RECURSIVE SeqsUpTo(_, _)
SeqsUpTo(S, n) ==
    IF n = 0 THEN {<<>>}
    ELSE LET shorter == SeqsUpTo(S, n - 1)
         IN  shorter \cup {Append(s, x) : s \in shorter, x \in S}
Packets == SeqsUpTo(PacketBytes, MaxPacketLen) \ {<<>>}
MaxNameLen == 4
WireNames == SeqsUpTo({97, 98, DOT}, MaxNameLen)
\* name_out_len of the runs (reply_parse and request_parse pass 256)
NameOutLen == 8

NoWire == [op |-> "none", packet |-> <<>>, idx |-> 0, name |-> <<>>,
           halt |-> "return", ret |-> 0, at |-> 0]

\* what a run may read or write: a packet and an offset into it, or a name
WireInputs ==
    {[NoWire EXCEPT !.op = "packet", !.packet = packet, !.idx = idx] :
        packet \in Packets, idx \in 0 .. MaxPacketLen - 1}
    \cup {[NoWire EXCEPT !.op = "name", !.name = name] : name \in WireNames}

\* reply_parse and request_parse read a name of a packet that came in
NameParse ==
    /\ wire.op = "packet"
    /\ LET p == name_parse(wire.packet, Len(wire.packet), wire.idx,
                           NameOutLen)
       IN  wire' = [wire EXCEPT !.op = "name_parse", !.name = p.name,
                                !.halt = p.halt, !.ret = p.ret,
                                !.at = p.idx]
    /\ UNCHANGED program

\* evdns_request_data_build writes the name of a question
DnsnameToLabels ==
    /\ wire.op = "name"
    /\ LET e == dnsname_to_labels(<<>>, Len(wire.name) + 2, wire.name,
                                  Len(wire.name))
       IN  wire' = [wire EXCEPT !.op = "dnsname_to_labels",
                                !.packet = e.buf, !.ret = e.ret]
    /\ UNCHANGED program

Next ==
    \/ ResolveIpv4
    \/ NameserverAdd
    \/ NameserverRead
    \/ NameserverReadError
    \/ NameserverWritable
    \/ RequestTimeout
    \/ ProbeTimer
    \/ ClearAndSuspend
    \/ Resume
    \/ Shutdown
    \/ SearchAdd
    \/ SearchNdotsSet
    \/ AddServerPort
    \/ ResolvConfParse
    \/ ServerPortReady
    \/ RequestRespond
    \/ RequestDrop
    \/ NameParse
    \/ DnsnameToLabels

(***************************************************************************)
(* The runs.                                                               *)
(***************************************************************************)
\* the runs with one nameserver: the whole API, probes, a search list
OneCalls == 2
OneCap == 1
OneRetransmits == 2
OneNsTimeout == 1
OneProbes == 1
OneSuspends == 1
\* the runs with two nameservers: back-pressure on the sockets, reissues
TwoCalls == 2
TwoCap == 2
TwoRetransmits == 2
TwoNsTimeout == 1
TwoProbes == 0
\* the runs that suspend a queue: two requests inflight and one that waits
ThreeCalls == 3
ThreeCap == 2
ThreeRetransmits == 1
ThreeNsTimeout == 1
ThreeSuspends == 1
\* the runs with two nameservers and sends that fail
FourCalls == 1
FourCap == 2
FourRetransmits == 2
FourNsTimeout == 1
\* the runs of a search: two domains, names with and without a dot
FiveCalls == 1
FiveCap == 1
FiveRetransmits == 1
FiveNsTimeout == 2
FiveNdots == 2
\* the runs that parse resolv.conf files
SevenRetransmits == 3
SevenParses == 2
\* the runs that probe a nameserver which stays down
NineCalls == 1
NineCap == 1
NineRetransmits == 2
NineNsTimeout == 1
NineProbes == 6
\* the runs that probe one of two nameservers
TenProbes == 1

Environments ==
    {[id |-> "one", calls |-> OneCalls, cap |-> OneCap,
      retransmits |-> OneRetransmits, ns_timeout |-> OneNsTimeout,
      addresses |-> 1, probes |-> OneProbes, sends |-> {"ok"},
      recv_err |-> {}, resolve_flags |-> {0},
      reply_flags |-> {32768, 32770, 32771}, reply_bodies |-> {"answer"},
      names |-> {<<"www">>}, domains |-> {<<"corp", "example">>},
      ndots |-> {}, suspends |-> OneSuspends, shutdown |-> {0, 1},
      server |-> FALSE, parses |-> 0,
      hostnames |-> {}, wire |-> FALSE],
     [id |-> "two", calls |-> TwoCalls, cap |-> TwoCap,
      retransmits |-> TwoRetransmits, ns_timeout |-> TwoNsTimeout,
      addresses |-> 2, probes |-> TwoProbes, sends |-> {"ok", "eagain"},
      recv_err |-> {1, 2}, resolve_flags |-> {1},
      reply_flags |-> {32768, 32770}, reply_bodies |-> {"answer"},
      names |-> {<<"www">>}, domains |-> {}, ndots |-> {}, suspends |-> 0, shutdown |-> {}, server |-> FALSE, parses |-> 0,
      hostnames |-> {}, wire |-> FALSE],
     [id |-> "three", calls |-> ThreeCalls, cap |-> ThreeCap,
      retransmits |-> ThreeRetransmits, ns_timeout |-> ThreeNsTimeout,
      addresses |-> 1, probes |-> 0, sends |-> {"ok"},
      recv_err |-> {}, resolve_flags |-> {1},
      reply_flags |-> {32768}, reply_bodies |-> {"answer"},
      names |-> {<<"www">>}, domains |-> {}, ndots |-> {}, suspends |-> ThreeSuspends, shutdown |-> {}, server |-> FALSE, parses |-> 0,
      hostnames |-> {}, wire |-> FALSE],
     [id |-> "four", calls |-> FourCalls, cap |-> FourCap,
      retransmits |-> FourRetransmits, ns_timeout |-> FourNsTimeout,
      addresses |-> 2, probes |-> 0, sends |-> {"ok", "err"},
      recv_err |-> {}, resolve_flags |-> {1},
      reply_flags |-> {32768, 32770}, reply_bodies |-> {"answer"},
      names |-> {<<"www">>}, domains |-> {}, ndots |-> {}, suspends |-> 0, shutdown |-> {}, server |-> FALSE, parses |-> 0,
      hostnames |-> {}, wire |-> FALSE],
     [id |-> "five", calls |-> FiveCalls, cap |-> FiveCap,
      retransmits |-> FiveRetransmits, ns_timeout |-> FiveNsTimeout,
      addresses |-> 1, probes |-> 0, sends |-> {"ok"},
      recv_err |-> {}, resolve_flags |-> {0},
      reply_flags |-> {32768, 32770, 32771}, reply_bodies |-> {"answer"},
      names |-> Names, domains |-> Domains, ndots |-> {FiveNdots},
      suspends |-> 0, shutdown |-> {}, server |-> FALSE, parses |-> 0,
      hostnames |-> {}, wire |-> FALSE],
     [id |-> "six", calls |-> 0, cap |-> 1, retransmits |-> 1,
      ns_timeout |-> 1, addresses |-> 0, probes |-> 0,
      sends |-> SendResults, recv_err |-> {}, resolve_flags |-> {},
      reply_flags |-> {}, reply_bodies |-> {}, names |-> {},
      domains |-> {}, ndots |-> {}, suspends |-> 0, shutdown |-> {},
      server |-> TRUE, parses |-> 0, hostnames |-> {}, wire |-> FALSE],
     [id |-> "seven", calls |-> 0, cap |-> 1, retransmits |-> SevenRetransmits,
      ns_timeout |-> 1, addresses |-> 0, probes |-> 0,
      sends |-> {"ok"}, recv_err |-> {}, resolve_flags |-> {},
      reply_flags |-> {}, reply_bodies |-> {}, names |-> {},
      domains |-> {}, ndots |-> {}, suspends |-> 0, shutdown |-> {},
      server |-> FALSE, parses |-> SevenParses,
      hostnames |-> {<<>>, <<"lan">>}, wire |-> FALSE],
     [id |-> "eight", calls |-> 0, cap |-> 1, retransmits |-> 1,
      ns_timeout |-> 1, addresses |-> 0, probes |-> 0,
      sends |-> {"ok"}, recv_err |-> {}, resolve_flags |-> {},
      reply_flags |-> {}, reply_bodies |-> {}, names |-> {},
      domains |-> {}, ndots |-> {}, suspends |-> 0, shutdown |-> {},
      server |-> FALSE, parses |-> 0, hostnames |-> {}, wire |-> TRUE],
     [id |-> "nine", calls |-> NineCalls, cap |-> NineCap,
      retransmits |-> NineRetransmits, ns_timeout |-> NineNsTimeout,
      addresses |-> 1, probes |-> NineProbes, sends |-> {"ok"},
      recv_err |-> {}, resolve_flags |-> {1},
      reply_flags |-> {32768}, reply_bodies |-> {"answer"},
      names |-> {<<"www">>}, domains |-> {}, ndots |-> {}, suspends |-> 0,
      shutdown |-> {}, server |-> FALSE, parses |-> 0, hostnames |-> {},
      wire |-> FALSE],
     [id |-> "ten", calls |-> 0, cap |-> 1, retransmits |-> 1,
      ns_timeout |-> 1, addresses |-> 2, probes |-> TenProbes,
      sends |-> {"ok"}, recv_err |-> {1}, resolve_flags |-> {},
      reply_flags |-> {32768, 32770}, reply_bodies |-> {"answer"},
      names |-> {}, domains |-> {}, ndots |-> {}, suspends |-> 0,
      shutdown |-> {}, server |-> FALSE, parses |-> 0, hostnames |-> {},
      wire |-> FALSE]}

Init ==
    /\ InitProgram
    /\ env \in Environments
    /\ global_max_requests_inflight = env.cap
    /\ global_max_retransmits = env.retransmits
    /\ global_timeout = 5
    /\ global_max_nameserver_timeout = env.ns_timeout
    /\ wire \in IF env.wire THEN WireInputs ELSE {NoWire}

Spec == Init /\ [][Next]_vars

(***************************************************************************)
(* The properties.                                                         *)
(***************************************************************************)
\* the requests made for resolve call c that are still allocated
LiveRequests(c) ==
    {r \in DOMAIN requests :
        requests[r].user_callback = "user" /\ requests[r].user_pointer = c}
Inflight == Range(req_head)
Waiting == Range(req_waiting_head)
\* the registered nameservers that are up
UpNameservers == {n \in Range(server_head) : nameservers[n].state = 1}

C2_ShutdownFailsEveryRequest ==
    [][(hist.shutdown = "no" /\ hist'.shutdown = "fail")
       => /\ ~crashed'
          /\ req_head' = <<>>
          /\ req_waiting_head' = <<>>
          /\ global_requests_inflight' = 0
          /\ global_requests_waiting' = 0
          /\ server_head' = <<>>
          /\ \A c \in hist'.owed :
                 /\ calls'[c].count = calls[c].count + 1
                 /\ calls'[c].result = DNS_ERR_SHUTDOWN]_vars

\* C3: every request on the inflight list has a transaction id other than
\* 0xffff and a nameserver, and no request is on both lists.
C3_InflightHaveIdAndNameserver ==
    /\ \A r \in Inflight :
           requests[r].trans_id # TRANS_ID_NONE /\ requests[r].ns # NULL
    /\ Inflight \cap Waiting = {}

\* C4: no two requests on the inflight list have the same transaction id.
C4_InflightIdsUnique ==
    \A i, j \in 1..Len(req_head) :
        i # j => requests[req_head[i]].trans_id # requests[req_head[j]].trans_id

\* C5: every request on the waiting list has transaction id 0xffff and no
\* nameserver.
C5_WaitingHaveSentinelId ==
    \A r \in Waiting :
        requests[r].trans_id = TRANS_ID_NONE /\ requests[r].ns = NULL

\* C6: whenever a queue operation reads the two counters, each equals the
\* length of its list.
C6_CountersMatchLists == hist.counts_ok

C8_GoodCountIsUpCount ==
    ~crashed => global_good_nameservers = Cardinality(UpNameservers)

\* the cap scenario: the resolver runs, a registered nameserver is up, the
\* counters are the lengths of the lists
CapScenario ==
    /\ ~crashed
    /\ hist.shutdown = "no"
    /\ UpNameservers # {}
    /\ global_requests_inflight = Len(req_head)
    /\ global_requests_waiting = Len(req_waiting_head)

\* in the next state, request r has been handed to the socket: its datagram
\* is sent, or the socket would block and r is marked to be sent when it is
\* writable, or the send has failed and counts as an attempt
Transmitted(r) ==
    \/ r \in Range(hist'.tx_order)
    \/ r \in hist'.errored /\ requests'[r].tx_count >= 1
    \/ /\ requests'[r].transmit_me = 1
       /\ nameservers'[requests'[r].ns].choaked = 1

\* a resolve call returns 0 in the cap scenario: its request is placed
\* inflight and transmitted when fewer than cap requests are inflight, and
\* else at the tail of the waiting list, not transmitted
C9_QueryPlaced ==
    (CapScenario /\ ~crashed' /\ DOMAIN calls' # DOMAIN calls) =>
        \E r \in DOMAIN requests' \ DOMAIN requests :
            /\ DOMAIN requests' = DOMAIN requests \cup {r}
            /\ IF Len(req_head) < global_max_requests_inflight
               THEN /\ req_head' = Append(req_head, r)
                    /\ req_waiting_head' = req_waiting_head
                    /\ Transmitted(r)
               ELSE /\ req_head' = req_head
                    /\ req_waiting_head' = Append(req_waiting_head, r)
                    /\ r \notin Range(hist'.tx_order)
                    /\ requests'[r].tx_count = 0
                    /\ requests'[r].transmit_me = 0

\* one request leaves a full inflight list while requests wait: the head of
\* the waiting list, and no other, is promoted and transmitted
C9_RetirePromotesOne ==
    (/\ CapScenario
     /\ Len(req_head) = global_max_requests_inflight
     /\ req_waiting_head # <<>>
     /\ ~crashed' /\ hist'.shutdown = "no"
     /\ Cardinality({r \in Inflight : r \notin DOMAIN requests'}) = 1) =>
        /\ {r \in Waiting : r \in Range(req_head')} = {Head(req_waiting_head)}
        /\ Len(req_head') = global_max_requests_inflight
        /\ req_head'[Len(req_head')] = Head(req_waiting_head)
        /\ Transmitted(Head(req_waiting_head))
        /\ \A i \in 2..Len(req_waiting_head) :
               req_waiting_head'[i - 1] = req_waiting_head[i]

\* C9: with cap c, a nameserver up and more than c queries: c requests are
\* placed inflight and transmitted, the others are placed on the waiting
\* list untransmitted, and each time one inflight request is retired exactly
\* one waiting request, the first, is promoted and transmitted.
C9_CapScenario == [][C9_QueryPlaced /\ C9_RetirePromotesOne]_vars

\* a reply has retired the one inflight request and the handler has promoted
\* the request that waited, whose datagram is sent
C9_Witness ==
    /\ ~crashed
    /\ hist.shutdown = "no"
    /\ UpNameservers # {}
    /\ hist.retired = 1
    /\ hist.pumped = 1
    /\ Len(req_head) = global_max_requests_inflight
    /\ req_head[Len(req_head)] \in Range(hist.tx_order)
    /\ \E c \in DOMAIN calls : calls[c].count = 1

\* C10 as stated: of two requests on the inflight list, the one placed
\* there first has its first datagram sent first.
C10_TransmitInPromotionOrder ==
    \A i, j \in 1..Len(req_head) :
        (i < j /\ req_head[j] \in Range(hist.tx_order)) =>
            /\ req_head[i] \in Range(hist.tx_order)
            /\ \E k, l \in 1..Len(hist.tx_order) :
                   /\ k < l
                   /\ hist.tx_order[k] = req_head[i]
                   /\ hist.tx_order[l] = req_head[j]

\* C10: while at most one nameserver is registered, of two requests on the
\* inflight list the one placed there first has its first datagram sent
\* first, whatever sends would block and whenever the socket becomes
\* writable, as long as no send fails with an error.
C10_TransmitInOrderOneNameserver ==
    (Len(server_head) <= 1 /\ hist.errored = {}) => C10_TransmitInPromotionOrder

\* two requests of the one nameserver were held back by its socket, which
\* would block, and both are sent since, in the order they were placed
C10_Witness ==
    /\ ~crashed
    /\ Len(server_head) = 1
    /\ Len(req_head) = 2
    /\ hist.tx_order = req_head
    /\ hist.blocked = Range(req_head)

\* C11: evdns_clear_nameservers_and_suspend keeps the order of the requests:
\* after it the waiting list reads the requests that were inflight, in
\* their order, and then the requests that waited, in their order.
C11_SuspendKeepsOrder ==
    [][(hist'.suspends = hist.suspends + 1 /\ server_head # <<>>) =>
           req_waiting_head' = req_head \o req_waiting_head]_vars

\* the states the process may be in after the timer of request r fires now
TimeoutOutcomes(r) ==
    {o \in Outcomes("evdns_request_timeout_callback", Cur, <<r>>, <<>>) :
        o.halt = "run"}

\* the callback of request r is made with result err between now and o
CalledBack(r, o, err) ==
    requests[r].user_callback = "user" =>
        /\ o.calls[requests[r].user_pointer].count
               = calls[requests[r].user_pointer].count + 1
        /\ o.calls[requests[r].user_pointer].result = err

\* no callback of request r is made between now and o
NotCalledBack(r, o) ==
    requests[r].user_callback = "user" =>
        o.calls[requests[r].user_pointer] = calls[requests[r].user_pointer]

\* in o, request r has been handed to the socket once more
SentAgain(r, o) ==
    \/ o.requests[r].tx_count = requests[r].tx_count + 1
    \/ /\ o.requests[r].tx_count = requests[r].tx_count
       /\ o.requests[r].transmit_me = 1
       /\ o.nameservers[o.requests[r].ns].choaked = 1

\* C12: a request is transmitted at most max_retransmits times between
\* (re)issues; when its timer fires with tx_count >= max_retransmits its
\* callback is made with TIMEOUT and it leaves the inflight list, and when
\* the timer fires with tx_count < max_retransmits it is sent again and
\* stays inflight.
C12_TimeoutRetransmitsOrFails ==
    ~crashed =>
        \A r \in Inflight :
            /\ requests[r].tx_count <= global_max_retransmits
            /\ requests[r].timeout_event =>
                   \A o \in TimeoutOutcomes(r) :
                       IF requests[r].tx_count >= global_max_retransmits
                       THEN /\ r \notin DOMAIN o.requests
                            /\ r \notin Range(o.req_head)
                            /\ CalledBack(r, o, DNS_ERR_TIMEOUT)
                       ELSE /\ r \in Range(o.req_head)
                            /\ SentAgain(r, o)
                            /\ NotCalledBack(r, o)

\* a request was sent max_retransmits times, its timer fired once more, and
\* its call has failed with TIMEOUT
C12_Witness ==
    /\ ~crashed
    /\ \E c \in DOMAIN calls :
           /\ calls[c].count = 1
           /\ calls[c].result = DNS_ERR_TIMEOUT
           /\ LiveRequests(c) = {}

\* between now and o the timeout handler has called send() for request r
Attempted(r, o) == o.requests[r].tx_count = requests[r].tx_count + 1

\* the timer of request r is armed after an attempt, and not the last one:
\* when it fires the request is retransmitted
AwaitsRetransmit(r) ==
    /\ requests[r].timeout_event
    /\ r \in DOMAIN hist.last_tx
    /\ requests[r].tx_count >= 1
    /\ requests[r].tx_count < global_max_retransmits

\* the retransmission of request r between now and o carries the transaction
\* id of the attempt before it, to the same nameserver
SameAsBefore(r, o) ==
    Attempted(r, o) =>
        /\ o.hist.last_tx[r].id = hist.last_tx[r].id
        /\ o.hist.last_tx[r].ns = hist.last_tx[r].ns

\* C13 as stated: a retransmission after a timeout carries the transaction
\* id of the attempt before it and goes to the same nameserver, also when
\* that attempt ended in a send error.
C13_RetransmitSameIdSameServer ==
    ~crashed =>
        \A r \in Inflight :
            AwaitsRetransmit(r) =>
                \A o \in TimeoutOutcomes(r) : SameAsBefore(r, o)

\* C13: a retransmission after a timeout carries the transaction id of the
\* attempt before it; it goes to the same nameserver when that attempt did
\* not end in a send error.
C13_RetransmitSameIdSameServerUnlessError ==
    ~crashed =>
        \A r \in Inflight :
            AwaitsRetransmit(r) =>
                \A o \in TimeoutOutcomes(r) :
                    /\ Attempted(r, o) =>
                           o.hist.last_tx[r].id = hist.last_tx[r].id
                    /\ hist.last_tx[r].res = "ok" => SameAsBefore(r, o)

\* a request was sent, its timer fired and marked the nameserver failed, and
\* it was sent again; a second nameserver is up
C13_Witness ==
    /\ ~crashed
    /\ \E r \in Inflight :
           /\ requests[r].tx_count = 2
           /\ r \in DOMAIN hist.last_tx
           /\ hist.last_tx[r].res = "ok"
           /\ hist.last_tx[r].ns = requests[r].ns
           /\ nameservers[requests[r].ns].state = 0
           /\ UpNameservers # {}

\* the flags words of replies with RCODE SERVERFAILED, NOTIMPL, REFUSED
BadServerFlags == {32770, 32772, 32773}

\* the states the process may be in after a reply with these flags is
\* handled for request r now
ReplyOutcomes(r, flags) ==
    {o \in Outcomes("reply_handle", Cur, <<r, flags, "none">>, <<>>) :
        o.halt = "run"}

\* between now and o request r is reissued: it stays inflight, to be sent
\* to another nameserver, and no callback is made
Reissued(r, o) ==
    /\ r \in Range(o.req_head)
    /\ o.requests[r].ns # requests[r].ns
    /\ o.requests[r].ns \in Range(o.server_head)
    /\ o.requests[r].tx_count = 0
    /\ o.requests[r].transmit_me = 1
    /\ o.requests[r].reissue_count = requests[r].reissue_count + 1
    /\ o.requests[r].trans_id = requests[r].trans_id
    /\ NotCalledBack(r, o)

\* between now and o the error of request r is passed up: to the callback,
\* or to the search, which makes a request for the next candidate
Surfaced(r, o, err) ==
    /\ r \notin DOMAIN o.requests
    /\ requests[r].user_callback = "user" =>
           \/ /\ o.calls[requests[r].user_pointer].count
                     = calls[requests[r].user_pointer].count + 1
              /\ o.calls[requests[r].user_pointer].result = err
              /\ o.calls[requests[r].user_pointer].made
                     = calls[requests[r].user_pointer].made
           \/ /\ o.calls[requests[r].user_pointer].count
                     = calls[requests[r].user_pointer].count
              /\ o.calls[requests[r].user_pointer].made
                     = calls[requests[r].user_pointer].made + 1

\* C14: a reply with RCODE SERVERFAILED, NOTIMPL or REFUSED for a request
\* with reissue_count < max_reissues either reissues the request (it stays
\* inflight with another nameserver, tx_count 0, transmit_me 1,
\* reissue_count one more, no callback), which it does when another
\* nameserver is up, or, when nameserver_pick returns the same nameserver,
\* passes the error up; reissue_count never exceeds max_reissues.
C14_ReissueOrSurface ==
    (~crashed /\ hist.shutdown = "no") =>
        \A r \in Inflight :
            /\ requests[r].reissue_count <= global_max_reissues
            /\ requests[r].reissue_count < global_max_reissues =>
                   \A flags \in BadServerFlags :
                       \A o \in ReplyOutcomes(r, flags) :
                           /\ Reissued(r, o) \/ Surfaced(r, o, reply_error(flags))
                           /\ (requests[r].tx_count >= 1
                               /\ UpNameservers \ {requests[r].ns} # {})
                                  => Reissued(r, o)
                           /\ Len(server_head) = 1 => Surfaced(r, o, reply_error(flags))

\* a request was reissued to the second nameserver after the first answered
\* SERVERFAILED, and was sent to it
C14_Witness ==
    /\ ~crashed
    /\ \E r \in Inflight :
           /\ requests[r].reissue_count = 1
           /\ requests[r].tx_count = 1
           /\ requests[r].transmit_me = 0
           /\ nameservers[requests[r].ns].state = 1
           /\ \E n \in Range(server_head) : nameservers[n].state = 0

\* the states the process may be in after request r is handed to
\* evdns_request_transmit now
TransmitOutcomes(r) ==
    {o \in Outcomes("evdns_request_transmit", Cur, <<r>>, <<>>) :
        o.halt = "run"}

\* request r was sent to one nameserver, is reissued to another and has
\* not been sent to it yet
ReissuePending(r) ==
    /\ requests[r].reissue_count >= 1
    /\ requests[r].tx_count = 0
    /\ requests[r].transmit_me = 1
    /\ r \in DOMAIN hist.last_tx
    /\ hist.last_tx[r].ns # requests[r].ns

\* a reply with RCODE 2 for a request that can be reissued leaves the
\* nameserver of the request down
ServfailMarksDown ==
    \A r \in Inflight :
        requests[r].reissue_count < global_max_reissues =>
            \A o \in ReplyOutcomes(r, 32770) :
                o.nameservers[requests[r].ns].state = 0

\* C15 as stated: after a nameserver answers RCODE 2 it is down, and the
\* datagram of the reissued request sent to the second nameserver carries a
\* transaction id other than the one sent to the first.
C15_FailoverNewId ==
    (~crashed /\ hist.shutdown = "no") =>
        /\ ServfailMarksDown
        /\ \A r \in Inflight :
               ReissuePending(r) =>
                   \A o \in TransmitOutcomes(r) :
                       Attempted(r, o) =>
                           /\ o.hist.last_tx[r].ns = requests[r].ns
                           /\ o.hist.last_tx[r].id # hist.last_tx[r].id

\* C15: after a nameserver answers RCODE 2 it is down, and the datagram of
\* the reissued request sent to the second nameserver carries the same
\* transaction id as the one sent to the first.
C15_FailoverSameId ==
    (~crashed /\ hist.shutdown = "no") =>
        /\ ServfailMarksDown
        /\ \A r \in Inflight :
               ReissuePending(r) =>
                   \A o \in TransmitOutcomes(r) :
                       Attempted(r, o) =>
                           /\ o.hist.last_tx[r].ns = requests[r].ns
                           /\ o.hist.last_tx[r].id = hist.last_tx[r].id

\* the reissued request has been sent to the second nameserver, which is
\* up, with the transaction id it has; the first is down
C15_Witness ==
    /\ ~crashed
    /\ \E r \in Inflight :
           /\ requests[r].reissue_count = 1
           /\ requests[r].tx_count >= 1
           /\ r \in DOMAIN hist.last_tx
           /\ hist.last_tx[r] = [ns |-> requests[r].ns,
                                 id |-> requests[r].trans_id, res |-> "ok"]
           /\ nameservers[requests[r].ns].state = 1
           /\ Cardinality({n \in Range(server_head) :
                              nameservers[n].state = 0}) = 1

\* C16: whenever a reply with RCODE SERVERFAILED, NOTIMPL or REFUSED is
\* handled for an inflight request, the nameserver of the request is marked
\* failed, whatever the reissue_count of the request is.
C16_BadReplyMarksNameserverFailed ==
    (~crashed /\ hist.shutdown = "no") =>
        \A r \in Inflight : \A f \in BadServerFlags :
            \A o \in ReplyOutcomes(r, f) :
                o.nameservers[requests[r].ns].state = 0

\* sequence s is the beginning of sequence t
IsPrefix(s, t) == Len(s) <= Len(t) /\ \A i \in 1..Len(s) : s[i] = t[i]

\* name with each domain of list appended, in the order of list
WithSuffixes(name, list) == [i \in 1..Len(list) |-> name \o list[i]]

\* the candidates of a search for name over list, in the order the policy
\* gives them
Candidates(name, ndots, list) ==
    IF Len(list) = 0 THEN <<name>>
    ELSE IF string_num_dots(name) >= ndots
         THEN <<name>> \o WithSuffixes(name, list)
         ELSE WithSuffixes(name, list) \o <<name>>

\* the list of domains new calls search, first element first
SearchList ==
    IF global_search_state = NULL THEN <<>>
    ELSE search_states[global_search_state].head
SearchNdots ==
    IF global_search_state = NULL THEN 1
    ELSE search_states[global_search_state].ndots

C18_SuffixesInConfiguredOrder ==
    (~crashed /\ hist.shutdown = "no") =>
        \A c \in DOMAIN calls :
            (hist.added # <<>> /\ string_num_dots(calls[c].name) < SearchNdots)
                => IsPrefix(calls[c].asked,
                            WithSuffixes(calls[c].name, hist.added)
                                \o <<calls[c].name>>)

\* request r is the current candidate of a search that has candidates left
\* and room to make the request of the next one
Searching(r) ==
    /\ requests[r].user_callback = "user"
    /\ requests[r].request_type = TYPE_A
    /\ requests[r].search_state # NULL
    /\ requests[r].search_state \in DOMAIN search_states
    /\ ~search_states[requests[r].search_state].freed
    /\ \/ requests[r].search_index + 1
              < search_states[requests[r].search_state].num_domains
       \/ string_num_dots(requests[r].search_origname)
              < search_states[requests[r].search_state].ndots
    /\ FreeRequests(Cur) # {}

\* between now and o request r is given up for the next candidate of its
\* search: a request is made for it and the user is not called
NextCandidate(r, o) ==
    /\ r \notin DOMAIN o.requests
    /\ o.calls[requests[r].user_pointer].count
           = calls[requests[r].user_pointer].count
    /\ o.calls[requests[r].user_pointer].made
           = calls[requests[r].user_pointer].made + 1
    /\ \E q \in DOMAIN o.requests :
           /\ o.requests[q].user_callback = "user"
           /\ o.requests[q].user_pointer = requests[r].user_pointer

\* the flags words of the replies that report an error: SERVFAIL, NXDOMAIN
ErrorFlags == {32770, 32771}

\* an error reply for the candidate r of a search moves the search on (or
\* has the request reissued to another nameserver)
ErrorReplyMovesOn(r) ==
    \A f \in ErrorFlags : \A o \in ReplyOutcomes(r, f) :
        NextCandidate(r, o) \/ Reissued(r, o)

\* the last timeout of request r is about to happen
LastTimeout(r) ==
    requests[r].timeout_event
        /\ requests[r].tx_count >= global_max_retransmits

\* C19 as stated: while a search has candidates left, every error outcome of
\* the current candidate, an error reply or the timeout after the last
\* retransmit, makes the resolver try the next candidate before the user
\* callback sees a failure.
C19_AnyErrorTriesNextCandidate ==
    (~crashed /\ hist.shutdown = "no") =>
        \A r \in Inflight :
            Searching(r) =>
                /\ ErrorReplyMovesOn(r)
                /\ LastTimeout(r) =>
                       \A o \in TimeoutOutcomes(r) : NextCandidate(r, o)

\* C19: while a search has candidates left, an error reply for the current
\* candidate makes the resolver try the next candidate before the user
\* callback sees a failure; the timeout after the last retransmit ends the
\* search: the callback is made with TIMEOUT and no further candidate is
\* tried.
C19_ErrorReplyTriesNextCandidate ==
    (~crashed /\ hist.shutdown = "no") =>
        \A r \in Inflight :
            Searching(r) =>
                /\ ErrorReplyMovesOn(r)
                /\ LastTimeout(r) =>
                       \A o \in TimeoutOutcomes(r) :
                           /\ CalledBack(r, o, DNS_ERR_TIMEOUT)
                           /\ o.calls[requests[r].user_pointer].made
                                  = calls[requests[r].user_pointer].made
                           /\ LiveRequests(requests[r].user_pointer) = {r}
                           /\ \A q \in DOMAIN o.requests :
                                  o.requests[q].user_pointer
                                      = requests[r].user_pointer
                                  => o.requests[q].user_callback # "user"

\* a search moved to its second candidate after an error reply and ended
\* with TIMEOUT there, its last candidate never tried
C19_Witness ==
    /\ ~crashed
    /\ Len(SearchList) = 2
    /\ \E c \in DOMAIN calls :
           /\ Len(calls[c].asked) = 2
           /\ calls[c].count = 1
           /\ calls[c].result = DNS_ERR_TIMEOUT
           /\ LiveRequests(c) = {}

\* the pending list of the port now
Pending == PendingReplies(Cur)

\* what the claim says of the evdns_request_respond that has just run
RespondAsStated(l) ==
    /\ (l.sent = "ok") <=> (l.returned /\ l.value = 0)
    /\ l.sent = "ok" =>
           /\ server_requests[l.req].freed
           /\ port.refcnt < l.refcnt
    /\ (l.sent = "eagain") <=> (l.returned /\ l.value > 0)
    /\ l.sent = "eagain" =>
           /\ Pending = Append(l.pending, l.req)
           /\ port.events = "readwrite"
    /\ l.sent \in {"err", "format"} =>
           /\ l.returned /\ l.value < 0
           /\ Pending = l.pending

\* C20: evdns_request_respond returns 0 exactly when the response was sent
\* at once (the request is then released and the reference count of the port
\* decremented), a positive value exactly when the send would block (the
\* request is then at the tail of the pending list and the port waits for
\* writability), and a negative value on any other send or encoding error
\* (the pending list is as it was).
C20_RespondReturnValue ==
    hist.respond.req # NULL => RespondAsStated(hist.respond)

\* the same for the calls that come back
RespondAsStatedIfReturns ==
    (hist.respond.req # NULL /\ ~crashed) => RespondAsStated(hist.respond)

\* sequence s is the end of sequence t
IsSuffix(s, t) ==
    /\ Len(s) <= Len(t)
    /\ \A i \in 1..Len(s) : s[i] = t[Len(t) - Len(s) + i]

\* the states the process may be in after the socket of the port becomes
\* writable now
FlushOutcomes ==
    {o \in Outcomes("server_port_ready_callback", Cur, <<TRUE, FALSE, 0>>,
                    <<>>) : o.halt = "run"}

\* C21: the replies of a port leave in the order of the evdns_request_respond
\* calls: a reply is not sent while a reply of an earlier call is in the
\* pending list, and a writable event drains the pending list from its head,
\* the replies that are not sent staying in their order.
C21_RepliesLeaveInOrder ==
    /\ (hist.respond.req # NULL /\ hist.respond.sent = "ok")
           => hist.respond.pending = <<>>
    /\ (~crashed /\ port.events = "readwrite")
           => \A o \in FlushOutcomes : IsSuffix(PendingReplies(o), Pending)

\* the states the process may be in after evdns_resolv_conf_parse(flags,
\* file) is called now, with the value it returns in ret
ParseOutcomes(flags, file) ==
    {o \in Outcomes("evdns_resolv_conf_parse", Cur, <<flags, file>>, <<>>) :
        o.halt = "run"}

\* the addresses of the registered nameservers of o
Addresses(o) == {o.nameservers[n].address : n \in Range(o.server_head)}

\* the search list of o
SearchListOf(o) ==
    IF o.global_search_state = NULL THEN <<>>
    ELSE o.search_states[o.global_search_state].head

\* in o the defaults that flags ask for are installed
DefaultsInstalled(o, flags) ==
    /\ ("NAMESERVERS" \in flags /\ Len(server_head) < MaxNameservers)
           => LOOPBACK \in Addresses(o)
    /\ "SEARCH" \in flags
           => \E h \in env.hostnames :
                  SearchListOf(o) = IF h = <<>> THEN <<>> ELSE <<h>>

\* C22: evdns_resolv_conf_parse returns 1 when the file cannot be opened,
\* and then the defaults the flags ask for are installed (the nameserver
\* 127.0.0.1, the search domain of the host name); it returns 0 only when
\* the file was opened and parsed.
C22_OpenFailureReturnsOne ==
    (Alive /\ env.parses > 0) =>
        \A flags \in OptionSets, file \in Files :
            \A o \in ParseOutcomes(flags, file) :
                /\ file.state = "noent" =>
                       o.ret = 1 /\ DefaultsInstalled(o, flags)
                /\ o.ret = 0 => file.state \in {"read", "empty"}

\* C23: the flags gate what a file changes: without NAMESERVERS the
\* nameservers are as before, without SEARCH the search state is as before,
\* without MISC the timeout and max_retransmits are as before, whatever the
\* file.
C23_FlagsGateChanges ==
    (Alive /\ env.parses > 0) =>
        \A flags \in OptionSets, file \in Files :
            \A o \in ParseOutcomes(flags, file) :
                /\ "NAMESERVERS" \notin flags =>
                       /\ o.server_head = server_head
                       /\ Addresses(o) = Addresses(Cur)
                /\ "SEARCH" \notin flags =>
                       /\ o.global_search_state = global_search_state
                       /\ SearchListOf(o) = SearchList
                       /\ (global_search_state # NULL =>
                              o.search_states[o.global_search_state].ndots
                                  = SearchNdots)
                /\ "MISC" \notin flags =>
                       /\ o.global_timeout = global_timeout
                       /\ o.global_max_retransmits = global_max_retransmits
\* C24: name_parse returns on every packet; it fails on a compression
\* pointer that points at its own offset, and on a pointer whose target is at
\* or past the packet length.
PointerAt(packet, j) == j + 1 < Len(packet) /\ packet[j + 1] >= 64
PointerTarget(packet, j) == (packet[j + 1] % 64) * 256 + packet[j + 2]
C24_NameParseTerminates ==
    wire.op = "name_parse" =>
        /\ wire.halt = "return"
        /\ (/\ PointerAt(wire.packet, wire.idx)
            /\ PointerTarget(wire.packet, wire.idx)
                   \in {wire.idx} \cup
                       {t \in 0 .. 16383 : t >= Len(wire.packet)})
           => wire.ret = -1

\* what name_parse reads back from the bytes dnsname_to_labels wrote
ReadBack == name_parse(wire.packet, Len(wire.packet), 0, NameOutLen)
RoundTrip(name) ==
    /\ wire.ret = Len(wire.packet)
    /\ ReadBack.halt = "return"
    /\ ReadBack.ret = 0
    /\ ReadBack.name = name
    /\ ReadBack.idx = wire.ret

\* C25 as stated: for every name (at most 255 bytes, labels at most 63
\* bytes, a trailing dot included) name_parse applied to what
\* dnsname_to_labels wrote without a table yields exactly the name, and the
\* cursor ends just past the encoded name.
C25_RoundTripExact ==
    wire.op = "dnsname_to_labels" => RoundTrip(wire.name)

\* no label of name is empty: no dot leads, ends or follows a dot
NoEmptyLabel(name) ==
    /\ name # <<>>
    /\ name[1] # DOT
    /\ name[Len(name)] # DOT
    /\ \A i \in 1 .. Len(name) - 1 : ~(name[i] = DOT /\ name[i + 1] = DOT)

\* C25: the round trip yields exactly the name when the name is empty or
\* has no empty label; for such a name followed by one dot it yields the
\* name without that dot.  The cursor ends just past the encoded name.
C25_RoundTripDropsTrailingDot ==
    wire.op = "dnsname_to_labels" =>
        /\ (wire.name = <<>> \/ NoEmptyLabel(wire.name))
           => RoundTrip(wire.name)
        /\ (/\ Len(wire.name) > 1
            /\ wire.name[Len(wire.name)] = DOT
            /\ NoEmptyLabel(SubSeq(wire.name, 1, Len(wire.name) - 1)))
           => RoundTrip(SubSeq(wire.name, 1, Len(wire.name) - 1))
C25_Witness ==
    /\ wire.op = "dnsname_to_labels"
    /\ wire.name = <<97, DOT, 98, DOT>>
    /\ wire.packet = <<1, 97, 1, 98, 0>>
    /\ ReadBack.name = <<97, DOT, 98>>

\* the states a datagram read from nameserver n may lead to
ReadOutcomes(n) ==
    UNION {{o \in Outcomes("nameserver_read", Cur,
                           <<n, "ok", id, flags, body>>, <<>>) :
               o.halt = "run"} :
           id \in PacketIds, flags \in env.reply_flags,
           body \in env.reply_bodies}
\* request r waits for its timer and its nameserver is registered
TimerRuns(r) ==
    /\ ~crashed
    /\ r \in DOMAIN requests
    /\ requests[r].timeout_event
    /\ requests[r].ns \in Range(server_head)

\* C26: a request timeout marks the nameserver failed exactly when its
\* counter of timeouts then exceeds global_max_nameserver_timeout, and the
\* counter is then 0; otherwise the timeout adds one to the counter.  Any
\* datagram read from the nameserver sets the counter to 0.
C26_TimeoutsMarkFailed ==
    /\ \A r \in DOMAIN requests :
         TimerRuns(r) =>
             LET ns == requests[r].ns
                 t == nameservers[ns].timedout + 1
             IN  \A o \in TimeoutOutcomes(r) :
                     IF t > global_max_nameserver_timeout
                     THEN /\ o.nameservers[ns].state = 0
                          /\ o.nameservers[ns].timedout = 0
                     ELSE /\ o.nameservers[ns].timedout = t
                          /\ \/ o.nameservers[ns].state = nameservers[ns].state
                             \/ "err" \in env.sends
    /\ ~crashed =>
         \A n \in Range(server_head) :
             \A o \in ReadOutcomes(n) : o.nameservers[n].timedout = 0
\* an up nameserver is one timeout from failing, and has been read from
\* after a timeout
C26_Witness ==
    /\ \E r \in DOMAIN requests :
         /\ TimerRuns(r)
         /\ nameservers[requests[r].ns].state = 1
         /\ nameservers[requests[r].ns].timedout
                = global_max_nameserver_timeout
         /\ global_max_nameserver_timeout > 0
         /\ TimeoutOutcomes(r) # {}
    /\ \E n \in Range(server_head) :
         nameservers[n].timedout > 0 /\ ReadOutcomes(n) # {}

\* nameserver n is down and its probe timer runs
Probing(n) ==
    /\ n \in DOMAIN nameservers
    /\ nameservers[n].state = 0
    /\ nameservers[n].timeout_event

\* C27: while a nameserver is down, the probe timer set after it went down
\* (failed_times = 1) waits 10 s, and the one set after the k-th failed
\* probe (failed_times = k + 1) waits table[min(k, 4)] of 10, 60, 300, 900,
\* 3600 s; the index stays inside the table and the delay of a down
\* nameserver never decreases.
C27_ProbeBackoff ==
    /\ [](\A n \in DOMAIN nameservers :
            Probing(n) =>
                /\ nameservers[n].failed_times >= 1
                /\ Min(nameservers[n].failed_times - 1,
                       global_nameserver_timeouts_length - 1) + 1
                       \in DOMAIN global_nameserver_timeouts
                /\ nameservers[n].timeout_tv
                       = global_nameserver_timeouts[
                             Min(nameservers[n].failed_times - 1,
                                 global_nameserver_timeouts_length - 1) + 1])
    /\ [][\A n \in DOMAIN nameservers :
            (/\ n \in DOMAIN nameservers'
             /\ nameservers[n].state = 0
             /\ nameservers'[n].state = 0
             /\ nameservers'[n].timeout_event)
            => /\ nameservers'[n].timeout_tv >= nameservers[n].timeout_tv
               /\ nameservers'[n].failed_times >= nameservers[n].failed_times
         ]_vars
\* the sixth probe timer of a nameserver runs: the last delay repeats
C27_Witness ==
    \E n \in DOMAIN nameservers :
        /\ Probing(n)
        /\ nameservers[n].failed_times = 6
        /\ nameservers[n].timeout_tv = 3600

\* request r is a probe that its next timeout gives up, of a nameserver
\* that is up again and that this timeout does not fail
LateProbe(r) ==
    /\ TimerRuns(r)
    /\ requests[r].user_callback = "probe"
    /\ requests[r].tx_count >= global_max_retransmits
    /\ nameservers[requests[r].ns].state = 1
    /\ nameservers[requests[r].ns].timedout < global_max_nameserver_timeout

\* C28: a nameserver that is up has no probe timer armed; a probe that
\* fails when its nameserver is up again leaves the timer off.
C28_UpHasNoProbeTimer ==
    /\ \A n \in DOMAIN nameservers :
         nameservers[n].state = 1 => ~nameservers[n].timeout_event
    /\ \A r \in DOMAIN requests :
         LateProbe(r) =>
             \A o \in TimeoutOutcomes(r) :
                 /\ o.nameservers[requests[r].ns].state = 1
                 /\ ~o.nameservers[requests[r].ns].timeout_event
\* a nameserver came up again while its probe was inflight, and the probe
\* is about to fail
C28_Witness ==
    \E r \in DOMAIN requests :
        /\ LateProbe(r)
        /\ nameservers[requests[r].ns].failed_times = 0
        /\ TimeoutOutcomes(r) # {}

\* the states nameserver_failed(n) may lead to
FailedOutcomes(n) ==
    {o \in Outcomes("nameserver_failed", Cur, <<n>>, <<>>) : o.halt = "run"}
\* the inflight requests that wait to go out to nameserver n, in list order
Movable(n) ==
    SelectSeq(req_head,
              LAMBDA r : requests[r].tx_count = 0 /\ requests[r].ns = n)
\* what nameserver_pick returns once n is marked down
PickAfter(n) ==
    Call("nameserver_pick",
         [Cur EXCEPT !.nameservers[n].state = 0,
                     !.global_good_nameservers = @ - 1], <<>>).ret
\* what nameserver_failed does to n and to the requests it cannot move
MarkedDown(n, o) ==
    /\ o.global_good_nameservers = global_good_nameservers - 1
    /\ o.nameservers[n].state = 0
    /\ o.nameservers[n].failed_times = 1
    /\ o.nameservers[n].timeout_event
    /\ o.nameservers[n].timeout_tv = global_nameserver_timeouts[1]
    /\ \A r \in Range(req_head) :
         (requests[r].tx_count > 0 \/ requests[r].ns # n)
             => o.requests[r].ns = requests[r].ns
Untouched(o) ==
    /\ o.nameservers = nameservers
    /\ o.requests = requests
    /\ o.server_head = server_head
    /\ o.req_head = req_head
    /\ o.global_good_nameservers = global_good_nameservers
CanFail(n) == ~crashed /\ n \in Range(server_head)

\* C29 as stated: when nameserver n goes down, the good counter drops by
\* one, failed_times is 1, the probe is scheduled, every inflight request
\* with tx_count = 0 on n goes to a nameserver that nameserver_pick returns
\* and the other inflight requests keep theirs; nameserver_failed on a
\* nameserver that is down changes nothing.
C29_FailedReassigns ==
    \A n \in DOMAIN nameservers :
        CanFail(n) =>
            \A o \in FailedOutcomes(n) :
                IF nameservers[n].state = 0 THEN Untouched(o)
                ELSE /\ MarkedDown(n, o)
                     /\ Movable(n) # <<>>
                            => o.requests[Head(Movable(n))].ns = PickAfter(n)

\* C29: the same, but the requests are moved only when another nameserver
\* is still up, and then to nameservers that are up; when n was the last
\* one up they stay with n and nameserver_pick is not called.
C29_FailedReassignsWhileGood ==
    \A n \in DOMAIN nameservers :
        CanFail(n) =>
            \A o \in FailedOutcomes(n) :
                IF nameservers[n].state = 0 THEN Untouched(o)
                ELSE /\ MarkedDown(n, o)
                     /\ IF o.global_good_nameservers > 0
                        THEN /\ Movable(n) # <<>>
                                  => o.requests[Head(Movable(n))].ns
                                         = PickAfter(n)
                             /\ \A r \in Range(Movable(n)) :
                                  /\ o.requests[r].ns # n
                                  /\ o.nameservers[o.requests[r].ns].state = 1
                        ELSE /\ \A r \in Range(Movable(n)) :
                                  o.requests[r].ns = n
                             /\ o.server_head = server_head
\* a request waits to go out to an up nameserver while another one is up,
\* and nameserver_failed moves it
C29_Witness ==
    \E n \in DOMAIN nameservers :
        /\ CanFail(n)
        /\ nameservers[n].state = 1
        /\ Movable(n) # <<>>
        /\ global_good_nameservers > 1
        /\ \E o \in FailedOutcomes(n) :
             o.requests[Head(Movable(n))].ns # n

\* the machine states after 0, 1, ..., k calls of nameserver_pick in a row
RECURSIVE PickStates(_, _)
PickStates(W, k) ==
    IF k = 0 THEN <<W>>
    ELSE <<W>> \o PickStates(Call("nameserver_pick", W, <<>>), k - 1)
\* what the picks j + 1 .. j + k of a row of picks return
PickWindow(j, k) ==
    LET row == PickStates(Cur, j + k)
    IN  [i \in 1 .. k |-> row[j + i + 1].ret]

\* C30: with a nameserver registered, nameserver_pick returns a registered
\* nameserver; when one is up it returns one that is up, and with k up any
\* k picks in a row return each of them exactly once.
C30_RoundRobinPick ==
    (~crashed /\ server_head # <<>>) =>
        LET k == Cardinality(UpNameservers)
        IN  /\ \A W \in Range(PickStates(Cur, Len(server_head) + k)) :
                 W.halt = "run"
            /\ \A j \in 0 .. Len(server_head) :
                 /\ PickWindow(j, 1)[1] \in Range(server_head)
                 /\ k > 0 =>
                      /\ Range(PickWindow(j, k)) = UpNameservers
                      /\ nameservers[PickWindow(j, 1)[1]].state = 1

\* the states evdns_nameserver_add(address) may lead to
AddOutcomes(address) ==
    {o \in Outcomes("evdns_nameserver_add", Cur, <<address>>, <<>>) :
        o.halt = "run"}
Registered(address) ==
    \E n \in Range(server_head) : nameservers[n].address = address
\* the addresses a caller may add
AddAddresses == 1 .. 3

\* C31: evdns_nameserver_add puts the new nameserver at the tail of the
\* list: from the head it comes after every nameserver registered before,
\* so with all of them up and no pick since the first was added, the picks
\* return them in the order they were added.  Adding a registered address
\* returns 3 and changes neither the list nor the good counter.
C31_AddAtTail ==
    Alive =>
        \A address \in AddAddresses :
            \A o \in AddOutcomes(address) :
                IF Registered(address)
                THEN /\ o.ret = 3
                     /\ o.server_head = server_head
                     /\ o.nameservers = nameservers
                     /\ o.global_good_nameservers = global_good_nameservers
                ELSE o.ret = 0 =>
                     /\ Len(o.server_head) = Len(server_head) + 1
                     /\ SubSeq(o.server_head, 1, Len(server_head))
                            = server_head
                     /\ o.global_good_nameservers
                            = global_good_nameservers + 1

\* the states a writable event on the socket of nameserver n may lead to
WritableOutcomes(n) ==
    {o \in Outcomes("nameserver_ready_callback_write", Cur, <<n>>, <<>>) :
        o.halt = "run"}
\* inflight request r is about to be sent to a registered nameserver that
\* is not choked
CanSend(r) ==
    /\ ~crashed
    /\ r \in Range(req_head)
    /\ requests[r].ns \in Range(server_head)
    /\ requests[r].trans_id # TRANS_ID_NONE
    /\ nameservers[requests[r].ns].choaked = 0
\* the send of request r to its nameserver would block in outcome o
Blocked(r, o) == o.ret = 1 /\ o.nameservers[requests[r].ns].choaked = 1

\* C32: a send that would block sets choaked and write_waiting of the
\* nameserver, leaves transmit_me of the request set, and adds neither a
\* transmission nor a timer; the next writable event of the nameserver
\* clears choaked and tries every inflight request that has transmit_me
\* set.  A nameserver that is choked waits for writability.
C32_WouldBlockWaitsForWritable ==
    /\ \A n \in Range(server_head) :
         (~crashed /\ nameservers[n].choaked = 1)
             => nameservers[n].write_waiting = 1
    /\ \A r \in DOMAIN requests :
         CanSend(r) =>
             \A o \in TransmitOutcomes(r) :
                 Blocked(r, o) =>
                     /\ o.nameservers[requests[r].ns].write_waiting = 1
                     /\ o.requests[r].transmit_me = 1
                     /\ o.requests[r].tx_count = requests[r].tx_count
                     /\ o.requests[r].timeout_event
                            = requests[r].timeout_event
    /\ \A n \in Range(server_head) :
         (~crashed /\ nameservers[n].write_waiting = 1) =>
             \A o \in WritableOutcomes(n) :
                 /\ \A r \in Range(req_head) :
                      (/\ requests[r].transmit_me = 1
                       /\ r \in DOMAIN o.requests
                       /\ o.requests[r].transmit_me = 1)
                      => o.nameservers[o.requests[r].ns].choaked = 1
                 /\ (\A r \in Range(req_head) : requests[r].transmit_me = 0)
                      => o.nameservers[n].choaked = 0
\* a send to a nameserver is about to block, and a choked nameserver has a
\* request that waits for its writable event
C32_Witness ==
    /\ \E r \in DOMAIN requests :
         CanSend(r) /\ \E o \in TransmitOutcomes(r) : Blocked(r, o)
    /\ \E n \in Range(server_head), r \in Range(req_head) :
         /\ nameservers[n].choaked = 1
         /\ requests[r].ns = n
         /\ requests[r].transmit_me = 1
         /\ \E o \in WritableOutcomes(n) : o.requests[r].tx_count = 1

\* the references to search state x: the live requests that point at it,
\* and global_search_state
SearchRefs(x) ==
    Cardinality({r \in DOMAIN requests : requests[r].search_state = x})
        + (IF global_search_state = x THEN 1 ELSE 0)

\* C33: the refcount of a search state is the number of live requests that
\* point at it, plus one when it is global_search_state; it is freed when
\* and only when nothing points at it any more, so no live request points
\* at a freed search state.
C33_SearchStateRefcount ==
    ~crashed =>
        \A x \in DOMAIN search_states :
            IF search_states[x].freed THEN SearchRefs(x) = 0
            ELSE /\ search_states[x].refcount = SearchRefs(x)
                 /\ SearchRefs(x) > 0

\* every way a writable event on the server port may end, an abort included
WritableEnds ==
    Outcomes("server_port_ready_callback", Cur, <<TRUE, FALSE, 0>>, <<>>)
\* every reply that was pending has been sent and released in o
AllSent(o) ==
    \A q \in Range(Pending) : o.server_requests[q].freed

\* C34: a writable event on the server port that sends every pending reply
\* returns with the queue of pending replies empty (pending_replies is NULL,
\* not a pointer to a released request) and with the port waiting for read
\* events only.
C34_FlushEmptiesQueue ==
    (~crashed /\ port # NoPort /\ Pending # <<>>) =>
        \A o \in WritableEnds :
            /\ o.halt = "run"
            /\ AllSent(o) =>
                   /\ o.port.pending_replies = NULL
                   /\ o.port.events = "read"

\* the live probe requests; user_pointer is the nameserver that is probed
Probes == {r \in DOMAIN requests : requests[r].user_callback = "probe"}

\* C35: a probe stays with the nameserver it probes: its nameserver field
\* is the probed nameserver, and the last datagram sent for it went there.
C35_ProbeStaysPinned ==
    ~crashed =>
        \A r \in Probes :
            /\ requests[r].ns = requests[r].user_pointer
            /\ r \in DOMAIN hist.last_tx
                   => hist.last_tx[r].ns = requests[r].user_pointer

\* n is a struct nameserver that has been released
Released(n) == n \in DOMAIN nameservers /\ nameservers[n].freed

\* C36: once evdns_clear_nameservers_and_suspend has returned, no live
\* request points at a nameserver it removed, neither by its ns field nor,
\* for a probe, by its callback argument.
C36_NoRequestHoldsRemovedNameserver ==
    (~crashed /\ hist.shutdown = "no") =>
        \A r \in DOMAIN requests :
            /\ ~Released(requests[r].ns)
            /\ r \in Probes => ~Released(requests[r].user_pointer)

\* C37: once evdns_shutdown has returned, no timer is armed: no request
\* waits for a timeout and no nameserver for its probe.
C37_ShutdownCancelsTimers ==
    (~crashed /\ hist.shutdown # "no") =>
        /\ \A r \in DOMAIN requests : ~requests[r].timeout_event
        /\ \A n \in DOMAIN nameservers : ~nameservers[n].timeout_event

\* no datagram of request r has gone to the nameserver it is assigned to
\* since it was assigned
NotYetSentThere(r) ==
    /\ requests[r].tx_count = 0
    /\ r \in DOMAIN hist.last_tx => hist.last_tx[r].ns # requests[r].ns

\* C38: the timeout of a request that has not been sent to the nameserver
\* it is now assigned to does not count against that nameserver: its
\* timedout counter and its state stay as they were.
C38_TimeoutCountsOnlySentRequests ==
    \A r \in DOMAIN requests :
        (TimerRuns(r) /\ NotYetSentThere(r)) =>
            \A o \in TimeoutOutcomes(r) :
                /\ o.nameservers[requests[r].ns].timedout
                       = nameservers[requests[r].ns].timedout
                /\ o.nameservers[requests[r].ns].state
                       = nameservers[requests[r].ns].state

(***************************************************************************)
(* C39: a request made while no nameserver is configured waits; once a     *)
(* nameserver has been added it is taken off the waiting list and          *)
(* transmitted by the event loop alone, with no call of evdns_resume and   *)
(* no further query.  The loop runs timers and socket events, so a request *)
(* that is to be promoted is never left with a loop that has nothing to    *)
(* run.                                                                    *)
(***************************************************************************)
\* request r waits while a nameserver is registered and a slot is free
Parked(r) ==
    /\ Alive
    /\ r \in Waiting
    /\ server_head # <<>>
    /\ global_requests_inflight < global_max_requests_inflight

\* the loop has nothing to run: no timer is armed, no socket is waited on
\* for writing
Idle ==
    /\ \A r \in DOMAIN requests : ~requests[r].timeout_event
    /\ \A n \in DOMAIN nameservers :
           ~nameservers[n].timeout_event /\ nameservers[n].write_waiting = 0

C39_WaitingPromotedAfterAdd ==
    \A r \in DOMAIN requests : Parked(r) => ~Idle

\* as long as the user makes no call and recv(2) does not fail, an idle
\* loop with a parked request stays idle and the request stays parked,
\* whatever datagrams arrive
ParkedStaysParked ==
    [][\A r \in DOMAIN requests :
          (/\ Parked(r) /\ Idle
           /\ calls' = calls
           /\ server_head' = server_head
           /\ hist'.shutdown = hist.shutdown
           /\ env.suspends = 0
           /\ env.recv_err = {})
          => (r \in DOMAIN requests' /\ Parked(r)' /\ Idle')]_vars

(***************************************************************************)
(* C40: every inflight request is retired in the end, whatever the replies *)
(* are, as long as timers fire and sockets become writable.  In every      *)
(* state an inflight request has its timeout armed, or is marked           *)
(* transmit_me while a socket is waited on for writing; no request is sent *)
(* more than max_retransmits * (max_reissues + 1) times while it is on the *)
(* inflight list (evdns_clear_nameservers_and_suspend puts it back on the  *)
(* waiting list with its counters at 0); and every step that touches the   *)
(* counters or the timer of a request that stays inflight uses up some of  *)
(* what the request has left, so that there are only finitely many such    *)
(* steps before it is retired.                                             *)
(***************************************************************************)
\* the loop will come back to inflight request r: its timeout is armed, or
\* it is to be transmitted and a writable event is pending
Served(r) ==
    \/ requests[r].timeout_event
    \/ /\ requests[r].transmit_me = 1
       /\ \E i \in 1 .. Len(server_head) :
              nameservers[server_head[i]].write_waiting = 1

\* the most datagrams one request is sent
MostSends == global_max_retransmits * (global_max_reissues + 1)

ServedAndBounded ==
    /\ Alive => \A r \in Inflight : Served(r)
    /\ \A r \in Inflight :
           /\ requests[r].tx_count <= global_max_retransmits
           /\ requests[r].reissue_count <= global_max_reissues
    /\ \A r \in DOMAIN hist.sends : hist.sends[r] <= MostSends

\* what request q has left: the reissues, the transmissions of this issue,
\* the timeout that is armed
Rank(q) ==
    (global_max_reissues - q.reissue_count) * (2 * global_max_retransmits + 2)
    + 2 * (global_max_retransmits - q.tx_count)
    + (IF q.timeout_event THEN 1 ELSE 0)

\* the fields of request q that a transmission, a timeout or a reissue sets
Gauge(q) == <<q.tx_count, q.reissue_count, q.timeout_event, q.transmit_me>>

\* a step that touches request r and leaves it inflight leaves it less
Spends ==
    \A r \in Inflight \cap Inflight' :
        \/ Gauge(requests'[r]) = Gauge(requests[r])
        \/ Rank(requests[r])' < Rank(requests[r])

====
